---- MODULE Spec2Model ----
(***************************************************************************)
(* Model of rpi_cam_control: the GStreamer source element (gstpicam.cpp),  *)
(* the MMAL helpers it uses (raspicam.cpp) and the stand-alone streamer    *)
(* (cam_controller.cpp).                                                   *)
(*                                                                         *)
(* Spec      the element: gst_pi_cam_init, start, unlock, stop, the        *)
(*           encoder callback thread and the threads calling               *)
(*           gst_pi_cam_create.                                            *)
(* FairSpec  Spec with the fairness of a scheduler that lets every thread  *)
(*           that can run do so.                                           *)
(* SpecMain  cam_controller's main with its encoder callback.              *)
(* SpecStop  SpecMain with the teardown functions callable again after     *)
(*           the teardown completed.                                       *)
(* SpecConfig create_camera_component and create_encoder_component on     *)
(*           every configuration the command line can set up.              *)
(* SpecCallback the two encoder callbacks called on a port that is         *)
(*           enabled or not, with any division of the buffers.             *)
(* CallbackFairSpec Spec with a fair callback thread and consumers that    *)
(*           owe nothing but the release of a mutex they hold.             *)
(* SpecCmdline cam_controller's parse_cmdline on short command lines.      *)
(***************************************************************************)
EXTENDS Integers, Sequences, FiniteSets, TLC

\* ---------------------------------------------------------------- bounds
NumBuffers == 2      \* buffer headers mmal_port_pool_create allocates
NumConsumers == 2    \* threads calling gst_pi_cam_create
MaxFrames == 2       \* buffers the encoder fills during one run
MaxLen == 1          \* buffer_size: bytes of one hardware buffer
MaxSlices == 5       \* largest slice count given with -slices
MaxRows == 3         \* small frames: up to this many macroblock rows
MaxBufferNum == 4    \* most buffers the camera's video port asks for

Buffers == 1..NumBuffers
Consumers == 1..NumConsumers

\* owners of picam->queueMutex
Free == 0
CB == -1

VARIABLES
  \* ---- the main / application thread
  mainpc,              \* position in gst_pi_cam_init / start / unlock / stop
  q,                   \* loop variable of the priming loop
  unlockCalls,         \* times the base class asked gst_pi_cam_unlock
  \* ---- pointers of GstPiCam / RASPIVID_STATE (TRUE = non-null)
  camera_component,
  encoder_component,
  encoder_connection,
  encoder_pool,
  \* ---- MMAL objects the pointers refer to
  stage,               \* [camera, encoder] -> none/enabled/disabled/destroyed
  conn,                \* none/enabled/destroyed
  pool,                \* none/alive/destroyed
  destroys,            \* [camera, encoder, connection, pool] -> destroy calls
  faults,              \* the places where a null pointer was dereferenced
  port_enabled,        \* encoder_output_port->is_enabled
  userdata,            \* encoder_output_port->userdata is set
  capture,             \* MMAL_PARAMETER_CAPTURE on the camera video port
  \* ---- the hardware buffers of the pool
  poolQueue,           \* pool->queue: the free list, a FIFO of buffer ids
  atPort,              \* buffers sent to the encoder output port, oldest first
  lost,                \* buffers taken from the free list and dropped
  nOutput,             \* buffers the encoder has filled so far
  \* ---- the encoder callback thread
  cbpc,
  mmal_buffer,         \* the buffer header the callback was handed
  new_buffer,          \* local of mmal_return_buffer_to_port (0 = none)
  gst_buffer,          \* the transport frame being built
  cbTrace,             \* what this invocation did so far, in order
  cbEntry,             \* Len(pushed) when this invocation started
  \* ---- the hand-off queue and its consumers
  queue,               \* picam->queue
  mutex,               \* owner of picam->queueMutex
  cpc,                 \* consumer -> position in gst_pi_cam_create
  cret,                \* consumer -> what its last call returned
  pushed,              \* every frame pushed, in push order
  popped,              \* every frame popped, in pop order
  popEmpty,            \* pops executed on an empty std::queue
  \* ---- cam_controller's main
  impl,                \* which program runs: "gstpicam" or "cam_controller"
  abort,               \* callback_data.abort
  status,              \* the MMAL status main keeps
  exit_code,           \* what main returns
  \* ---- the configuration and create_encoder_component
  state,               \* the settings of RASPIVID_STATE / GstPiCam
  requested,           \* the settings as they were before construction
  encoder_output,      \* what was committed to the encoder output port
  encpc,               \* position in create_encoder_component
  set_calls,           \* <<parameter, succeeded>> of the set calls the
                       \* running create_encoder_component has made
  camera_video,        \* the format of the camera's video output port
  \* ---- cam_controller's parse_cmdline
  argv,                \* the command line, argv[0] first
  arg_i,               \* the loop variable i
  valid,               \* the local valid
  cmdpc,               \* position in parse_cmdline
  cmdret,              \* what parse_cmdline returned
  flags                \* profile, bInlineHeaders, addSPSTiming of the state

mainVars == <<mainpc, q, unlockCalls>>
ptrVars == <<camera_component, encoder_component, encoder_connection, encoder_pool>>
objVars == <<stage, conn, pool, destroys, faults, port_enabled, userdata, capture>>
bufVars == <<poolQueue, atPort, lost, nOutput>>
cbVars == <<cbpc, mmal_buffer, new_buffer, gst_buffer, cbTrace, cbEntry>>
queueVars == <<queue, mutex, cpc, cret, pushed, popped, popEmpty>>

progVars == <<impl, abort, status, exit_code>>

cmdVars == <<argv, arg_i, valid, cmdpc, cmdret, flags>>

cfgVars == <<state, requested, encoder_output, encpc, set_calls,
             camera_video, cmdVars>>

vars == <<mainVars, ptrVars, objVars, bufVars, cbVars, queueVars, progVars,
          cfgVars>>

\* ---------------------------------------------------------------- helpers
NoBuffer == [id |-> 0, length |-> 0, sideinfo |-> FALSE, data |-> <<>>]
NoFrame == [len |-> 0, data |-> <<>>]

Range(s) == {s[i] : i \in 1..Len(s)}

IsPrefix(s, t) == Len(s) <= Len(t) /\ \A i \in 1..Len(s) : s[i] = t[i]

Count(s, e) == Cardinality({i \in 1..Len(s) : s[i] = e})

\* the k-th buffer the encoder fills carries k in every byte
Payload(k) == [i \in 1..MaxLen |-> k]

\* ---------------------------------------------------------------- Init
InitCommon ==
  /\ q = 0
  /\ unlockCalls = 0
  /\ camera_component = FALSE
  /\ encoder_component = FALSE
  /\ encoder_connection = FALSE
  /\ encoder_pool = FALSE
  /\ stage = [camera |-> "none", encoder |-> "none"]
  /\ conn = "none"
  /\ pool = "none"
  /\ destroys = [camera |-> 0, encoder |-> 0, connection |-> 0, pool |-> 0]
  /\ faults = {}
  /\ port_enabled = FALSE
  /\ userdata = FALSE
  /\ capture = FALSE
  /\ poolQueue = <<>>
  /\ atPort = <<>>
  /\ lost = {}
  /\ nOutput = 0
  /\ cbpc = "idle"
  /\ mmal_buffer = NoBuffer
  /\ new_buffer = 0
  /\ gst_buffer = NoFrame
  /\ cbTrace = <<>>
  /\ cbEntry = 0
  /\ queue = <<>>
  /\ mutex = Free
  /\ cpc = [c \in Consumers |-> "idle"]
  /\ cret = [c \in Consumers |-> "none"]
  /\ pushed = <<>>
  /\ popped = <<>>
  /\ popEmpty = 0
  /\ abort = 0
  /\ status = "MMAL_SUCCESS"
  /\ exit_code = "EX_OK"

\* ------------------------------------------------- the configuration
INT_MAX == 2147483647

MAX_BITRATE_MJPEG == 25000000
MAX_BITRATE_LEVEL4 == 25000000
MAX_BITRATE_LEVEL42 == 62500000

\* the member initialisers of GstPiCam and of RASPIVID_STATE; GstPiCam has
\* no encoding and no slices member, its encoder is always H264 and unsliced
DefaultState ==
  [encoding |-> "MMAL_ENCODING_H264", bitrate |-> 17000000,
   level |-> "MMAL_VIDEO_LEVEL_H264_4", width |-> 1920, height |-> 1080,
   framerate |-> 30, slices |-> 1, intraperiod |-> -1,
   quantisationParameter |-> 0, intra_refresh_type |-> "none"]

\* the encoder output port before anything was committed to it
NoFormat ==
  [bitrate |-> [hi |-> 0, lo |-> 0], level |-> "none", mb_rows_per_slice |-> 0,
   parameters |-> {}]

\* the camera's video port before create_camera_component: no format, and
\* the number of buffers the port asks for itself, which negotiated keeps
NoVideo == [width |-> 0, height |-> 0,
            crop |-> [x |-> 0, y |-> 0, width |-> 0, height |-> 0],
            buffer_num |-> 1, negotiated |-> 1, committed |-> FALSE]

\* what parse_cmdline accepts.  -b and -fps are read with %u into an int:
\* "-b 3000000000" leaves -1294967296 in state->bitrate, and any frame rate
\* is taken
Encodings == {"MMAL_ENCODING_H264", "MMAL_ENCODING_MJPEG"}

Levels == {"MMAL_VIDEO_LEVEL_H264_4", "MMAL_VIDEO_LEVEL_H264_41",
           "MMAL_VIDEO_LEVEL_H264_42"}

Bitrates == {-1294967296, 17000000, 25000000, 25000001, 62500000, 62500001}

Widths == {640, 1280, 1296, 1920}

Heights == {16 * r - 8 : r \in 1..MaxRows} \cup {16 * r : r \in 1..MaxRows}
             \cup {768, 1080}

Framerates == {30, 60, 64, 65, 526345}

\* -g, -qp and -if; without them the intra period is -1, the quantisation
\* parameter 0 and the intra-refresh type an empty optional ("none")
Intraperiods == {-1, 25}

Quantisations == {0, 20}

RefreshTypes == {"none", "MMAL_VIDEO_INTRA_REFRESH_CYCLIC"}

\* the picture and rate options in every combination, and the optional
\* encoder parameters in every combination
CmdlineStates ==
  {[encoding |-> e, bitrate |-> b, level |-> l, width |-> w, height |-> h,
    framerate |-> f, slices |-> n, intraperiod |-> -1,
    quantisationParameter |-> 0, intra_refresh_type |-> "none"] :
     e \in Encodings, b \in Bitrates, l \in Levels, w \in Widths,
     h \in Heights, f \in Framerates, n \in 1..MaxSlices}
  \cup
  {[DefaultState EXCEPT !.encoding = e, !.intraperiod = g,
                        !.quantisationParameter = qp,
                        !.intra_refresh_type = r] :
     e \in Encodings, g \in Intraperiods, qp \in Quantisations,
     r \in RefreshTypes}

\* cam_controller.cpp 140-158: the members of RASPIVID_STATE that only the
\* command line changes
DefaultFlags == [profile |-> "MMAL_VIDEO_PROFILE_H264_HIGH",
                 bInlineHeaders |-> 0, addSPSTiming |-> FALSE]

\* parse_cmdline is not running
NoCmdline ==
  /\ argv = <<>>
  /\ arg_i = 1
  /\ valid = 1
  /\ cmdpc = "idle"
  /\ cmdret = 0
  /\ flags = DefaultFlags

DefaultConfig ==
  /\ state = DefaultState
  /\ requested = state
  /\ encoder_output = NoFormat
  /\ encpc = "create"
  /\ set_calls = {}
  /\ camera_video = NoVideo
  /\ NoCmdline

Init ==
  /\ InitCommon
  /\ impl = "gstpicam"
  /\ mainpc = "create_camera"
  /\ DefaultConfig

\* ------------------------------------------------- raspicam.cpp helpers
VIDEO_OUTPUT_BUFFERS_NUM == 3

\* VCOS_ALIGN_UP(p, n) for a non-negative p and a power of two n
VCOS_ALIGN_UP(p, n) == ((p + n - 1) \div n) * n

\* the requested size committed as it is
video_format_unaligned(st, port) ==
  [width |-> st.width, height |-> st.height,
   crop |-> [x |-> 0, y |-> 0, width |-> st.width, height |-> st.height],
   buffer_num |-> IF port.buffer_num < VIDEO_OUTPUT_BUFFERS_NUM
                    THEN VIDEO_OUTPUT_BUFFERS_NUM ELSE port.buffer_num,
   negotiated |-> port.buffer_num,
   committed |-> TRUE]

\* lines 94-112: the format committed to the video port and the number of
\* buffers it is left with
video_format(st, port) ==
  [width |-> VCOS_ALIGN_UP(st.width, 32),
   height |-> VCOS_ALIGN_UP(st.height, 16),
   crop |-> [x |-> 0, y |-> 0, width |-> st.width, height |-> st.height],
   buffer_num |-> IF port.buffer_num < VIDEO_OUTPUT_BUFFERS_NUM
                    THEN VIDEO_OUTPUT_BUFFERS_NUM ELSE port.buffer_num,
   negotiated |-> port.buffer_num,
   committed |-> TRUE]

\* a failure path that forgets the component
camera_deleter_missing(outcome) == 0

\* line 13: the deleter of the unique_ptr runs on every return nullptr
\* after the component was created, and not after release()
camera_deleter(outcome) == IF outcome = "step_failed" THEN 1 ELSE 0

\* raspicam::create_camera_component: null when mmal_component_create
\* fails, null with the component destroyed by the unique_ptr deleter when a
\* later step fails, otherwise the enabled component.
create_camera_component ==
  /\ mainpc = "create_camera"
  /\ \E outcome \in {"create_failed", "step_failed", "ok"} :
       /\ camera_component' = (outcome = "ok")
       /\ stage' = [stage EXCEPT !.camera =
                      CASE outcome = "create_failed" -> "none"
                        [] camera_deleter(outcome) > 0 -> "destroyed"
                        [] outcome = "step_failed" -> "created"
                        [] OTHER -> "enabled"]
       /\ destroys' = [destroys EXCEPT !.camera = @ + camera_deleter(outcome)]
       /\ camera_video' = IF outcome = "ok"
                            THEN video_format(state, camera_video)
                            ELSE camera_video
  /\ mainpc' = "create_encoder"
  /\ UNCHANGED <<q, unlockCalls, encoder_component, encoder_connection,
                 encoder_pool, conn, pool, faults, port_enabled, userdata,
                 capture, bufVars, cbVars, queueVars, progVars,
                 state, requested, encoder_output, encpc, set_calls,
                 cmdVars>>

\* ------------------------------------------------- create_encoder_component
\* The steps below are create_encoder_component of cam_controller.cpp;
\* raspicam::create_encoder_component is the same code without the MJPEG
\* branch and without the slices block, which a GstPiCam never enters.

\* a uint32_t as its two 16-bit halves; the conversion from int keeps the
\* 32 bits
uint32_t(x) ==
  IF x >= 0
    THEN [hi |-> x \div 65536, lo |-> x % 65536]
    ELSE [hi |-> 65535 - ((-(x + 1)) \div 65536),
          lo |-> 65535 - ((-(x + 1)) % 65536)]

\* lines 851-877: the comparisons are between ints
clamp_bitrate(encoding, level, bitrate) ==
  CASE encoding = "MMAL_ENCODING_H264" ->
         IF level = "MMAL_VIDEO_LEVEL_H264_4"
           THEN IF bitrate > MAX_BITRATE_LEVEL4 THEN MAX_BITRATE_LEVEL4
                                                ELSE bitrate
           ELSE IF bitrate > MAX_BITRATE_LEVEL42 THEN MAX_BITRATE_LEVEL42
                                                 ELSE bitrate
    [] encoding = "MMAL_ENCODING_MJPEG" ->
         IF bitrate > MAX_BITRATE_MJPEG THEN MAX_BITRATE_MJPEG ELSE bitrate
    [] OTHER -> bitrate

\* line 931
sets_slices(st) ==
  st.encoding = "MMAL_ENCODING_H264" /\ st.slices > 1 /\ st.width <= 1280

\* line 932
frame_mb_rows(height) == VCOS_ALIGN_UP(height, 16) \div 16

\* a division that drops the remainder
slice_row_mb_floor(rows, slices) == rows \div slices

\* lines 939-941
slice_row_mb(rows, slices) ==
  IF rows - slices * (rows \div slices) # 0
    THEN rows \div slices + 1
    ELSE rows \div slices

\* the first two factors of the product at lines 986 and 987
frame_mbs(st) ==
  (VCOS_ALIGN_UP(st.width, 16) \div 16) * (VCOS_ALIGN_UP(st.height, 16) \div 16)

\* the int product with the frame rate does not fit an int
mbs_overflow(st) == st.framerate > 0 /\ frame_mbs(st) > INT_MAX \div st.framerate

\* lines 986-995: the level is kept, raised to 4.2, or the request is
\* rejected; a signed overflow of the product is undefined and the two
\* comparisons may come out either way
profile_outcomes(st) ==
  IF mbs_overflow(st)
    THEN {"keep", "raise", "reject"}
    ELSE IF frame_mbs(st) * st.framerate > 245760
           THEN IF frame_mbs(st) * st.framerate <= 522240 THEN {"raise"}
                                                          ELSE {"reject"}
           ELSE {"keep"}

\* main or gst_pi_cam_init is inside its call of create_encoder_component
AtEncoder == mainpc \in {"create_encoder", "m_create_encoder"}

\* lines 827-849
encoder_component_create ==
  /\ AtEncoder /\ encpc = "create"
  /\ \E ok \in BOOLEAN :
       /\ encpc' = IF ok THEN "bitrate" ELSE "create_failed"
       /\ stage' = [stage EXCEPT !.encoder = IF ok THEN "created" ELSE @]
  /\ UNCHANGED <<mainVars, ptrVars, conn, pool, destroys, faults, port_enabled,
                 userdata, capture, bufVars, cbVars, queueVars, progVars,
                 state, requested, encoder_output, set_calls, camera_video, cmdVars>>

\* lines 851-879: state->bitrate is clamped and assigned to the uint32_t
\* format->bitrate
encoder_bitrate ==
  /\ AtEncoder /\ encpc = "bitrate"
  /\ state' = [state EXCEPT
                 !.bitrate = clamp_bitrate(state.encoding, state.level, @)]
  /\ encoder_output' = [encoder_output EXCEPT
                          !.bitrate = uint32_t(state'.bitrate)]
  /\ encpc' = "commit"
  /\ UNCHANGED <<mainVars, ptrVars, objVars, bufVars, cbVars, queueVars,
                 progVars, requested, set_calls, camera_video, cmdVars>>

\* lines 881-907: buffer size and number, mmal_port_format_commit
encoder_commit ==
  /\ AtEncoder /\ encpc = "commit"
  /\ \E ok \in BOOLEAN : encpc' = IF ok THEN "intraperiod" ELSE "failed"
  /\ UNCHANGED <<mainVars, ptrVars, objVars, bufVars, cbVars, queueVars,
                 progVars, state, requested, encoder_output, set_calls,
                 camera_video, cmdVars>>

\* a failed set call that is logged and passed over
set_ignored(ok, next) == next

\* "goto error" (cam_controller) and "return std::make_pair(nullptr,
\* nullptr)" (raspicam) after a set call that did not return MMAL_SUCCESS
set_checked(ok, next) == IF ok THEN next ELSE "failed"

\* lines 922-929; raspicam.cpp 196-204 tests the optional, which the model
\* keeps as -1 when it is empty
encoder_intraperiod ==
  /\ AtEncoder /\ encpc = "intraperiod"
  /\ IF state.encoding = "MMAL_ENCODING_H264" /\ state.intraperiod # -1
       THEN \E ok \in BOOLEAN :
              /\ set_calls' =
                   set_calls \cup {<<"MMAL_PARAMETER_INTRAPERIOD", ok>>}
              /\ encpc' = set_checked(ok, "slices")
       ELSE /\ encpc' = "slices"
            /\ UNCHANGED set_calls
  /\ UNCHANGED <<mainVars, ptrVars, objVars, bufVars, cbVars, queueVars,
                 progVars, state, requested, encoder_output, camera_video, cmdVars>>

\* lines 931-948
encoder_slices ==
  /\ AtEncoder /\ encpc = "slices"
  /\ IF sets_slices(state)
       THEN \E ok \in BOOLEAN :
              /\ set_calls' =
                   set_calls \cup {<<"MMAL_PARAMETER_MB_ROWS_PER_SLICE", ok>>}
              /\ encpc' = set_checked(ok, "quant")
              /\ IF ok
                   THEN encoder_output' =
                          [encoder_output EXCEPT
                             !.mb_rows_per_slice =
                                slice_row_mb(frame_mb_rows(state.height),
                                             state.slices),
                             !.parameters =
                                @ \cup {"MMAL_PARAMETER_MB_ROWS_PER_SLICE"}]
                   ELSE UNCHANGED encoder_output
       ELSE /\ encpc' = "quant"
            /\ UNCHANGED <<encoder_output, set_calls>>
  /\ UNCHANGED <<mainVars, ptrVars, objVars, bufVars, cbVars, queueVars,
                 progVars, state, requested, camera_video, cmdVars>>

\* the three set calls of lines 953-975, in the order they are made
QuantParameters ==
  <<"MMAL_PARAMETER_VIDEO_ENCODE_INITIAL_QUANT",
    "MMAL_PARAMETER_VIDEO_ENCODE_MIN_QUANT",
    "MMAL_PARAMETER_VIDEO_ENCODE_MAX_QUANT">>

\* lines 950-976: n of the three calls succeed, the next one fails
encoder_quant ==
  /\ AtEncoder /\ encpc = "quant"
  /\ IF state.encoding = "MMAL_ENCODING_H264"
          /\ state.quantisationParameter # 0
       THEN \E n \in 0..3 :
              /\ set_calls' =
                   set_calls
                     \cup {<<QuantParameters[i], TRUE>> : i \in 1..n}
                     \cup {<<QuantParameters[i], FALSE>> :
                             i \in {j \in 1..3 : j = n + 1}}
              /\ encpc' = set_checked(n = 3, "profile")
       ELSE /\ encpc' = "profile"
            /\ UNCHANGED set_calls
  /\ UNCHANGED <<mainVars, ptrVars, objVars, bufVars, cbVars, queueVars,
                 progVars, state, requested, encoder_output, camera_video, cmdVars>>

\* lines 978-1004: the profile and the level, which is raised in
\* state->level before it is sent
encoder_profile ==
  /\ AtEncoder /\ encpc = "profile"
  /\ IF state.encoding = "MMAL_ENCODING_H264"
       THEN \E o \in profile_outcomes(state), ok \in BOOLEAN :
              /\ state' = [state EXCEPT
                             !.level = IF o = "raise"
                                         THEN "MMAL_VIDEO_LEVEL_H264_42" ELSE @]
              /\ set_calls' = IF o = "reject"
                                THEN set_calls
                                ELSE set_calls
                                       \cup {<<"MMAL_PARAMETER_PROFILE", ok>>}
              /\ IF o # "reject" /\ ok
                   THEN /\ encoder_output' =
                             [encoder_output EXCEPT
                                !.level = state'.level,
                                !.parameters = @ \cup {"MMAL_PARAMETER_PROFILE"}]
                        /\ encpc' = "inline_headers"
                   ELSE /\ encpc' = "failed"
                        /\ UNCHANGED encoder_output
       ELSE /\ encpc' = "inline_headers"
            /\ UNCHANGED <<state, encoder_output, set_calls>>
  /\ UNCHANGED <<mainVars, ptrVars, objVars, bufVars, cbVars, queueVars,
                 progVars, requested, camera_video, cmdVars>>

\* lines 1006-1011 (raspicam.cpp 263-269): "Continue rather than abort"
encoder_inline_headers ==
  /\ AtEncoder /\ encpc = "inline_headers"
  /\ IF state.encoding = "MMAL_ENCODING_H264"
       THEN \E ok \in BOOLEAN :
              /\ set_calls' =
                   set_calls
                     \cup {<<"MMAL_PARAMETER_VIDEO_ENCODE_INLINE_HEADER", ok>>}
              /\ encpc' = set_ignored(ok, "sps_timing")
       ELSE /\ encpc' = "sps_timing"
            /\ UNCHANGED set_calls
  /\ UNCHANGED <<mainVars, ptrVars, objVars, bufVars, cbVars, queueVars,
                 progVars, state, requested, encoder_output, camera_video, cmdVars>>

\* lines 1013-1017 (raspicam.cpp 271-277): "Continue rather than abort"
encoder_sps_timing ==
  /\ AtEncoder /\ encpc = "sps_timing"
  /\ IF state.encoding = "MMAL_ENCODING_H264"
       THEN \E ok \in BOOLEAN :
              /\ set_calls' =
                   set_calls
                     \cup {<<"MMAL_PARAMETER_VIDEO_ENCODE_SPS_TIMING", ok>>}
              /\ encpc' = set_ignored(ok, "intra_refresh")
       ELSE /\ encpc' = "intra_refresh"
            /\ UNCHANGED set_calls
  /\ UNCHANGED <<mainVars, ptrVars, objVars, bufVars, cbVars, queueVars,
                 progVars, state, requested, encoder_output, camera_video, cmdVars>>

\* lines 1019-1043 (raspicam.cpp 279-302): a failed get only zeroes the
\* fields of the parameter, a failed set ends the function
encoder_intra_refresh ==
  /\ AtEncoder /\ encpc = "intra_refresh"
  /\ IF state.encoding = "MMAL_ENCODING_H264"
          /\ state.intra_refresh_type # "none"
       THEN \E got \in BOOLEAN, ok \in BOOLEAN :
              /\ set_calls' =
                   set_calls
                     \cup {<<"MMAL_PARAMETER_VIDEO_INTRA_REFRESH", ok>>}
              /\ encpc' = set_checked(ok, "enable")
       ELSE /\ encpc' = "enable"
            /\ UNCHANGED set_calls
  /\ UNCHANGED <<mainVars, ptrVars, objVars, bufVars, cbVars, queueVars,
                 progVars, state, requested, encoder_output, camera_video, cmdVars>>

\* how the rest of the function can end, given how far it got
encoder_outcomes(pc) ==
  CASE pc = "create_failed" -> {"create_failed"}
    [] pc = "failed" -> {"step_failed"}
    [] OTHER -> {"step_failed", "no_pool", "ok"}

\* a failure path that forgets the component
encoder_deleter_missing(outcome) == 0

\* line 141: the deleter of the unique_ptr runs on every return of
\* (nullptr, nullptr) after the component was created, and not after
\* release()
encoder_deleter(outcome) == IF outcome = "step_failed" THEN 1 ELSE 0

\* raspicam::create_encoder_component, from mmal_component_enable to the
\* return (lines 304-318): (null, null) on any failure before the pool is
\* created, with the
\* component destroyed by the unique_ptr deleter if it existed, otherwise
\* the enabled encoder with the pool mmal_port_pool_create returned, which
\* may be null.
create_encoder_component ==
  /\ mainpc = "create_encoder"
  /\ encpc \in {"enable", "failed", "create_failed"}
  /\ encpc' = "returned"
  /\ set_calls' = {}
  /\ \E outcome \in encoder_outcomes(encpc) :
       /\ encoder_component' = (outcome \in {"no_pool", "ok"})
       /\ encoder_pool' = (outcome = "ok")
       /\ stage' = [stage EXCEPT !.encoder =
                      CASE outcome = "create_failed" -> "none"
                        [] encoder_deleter(outcome) > 0 -> "destroyed"
                        [] outcome = "step_failed" -> "created"
                        [] OTHER -> "enabled"]
       /\ destroys' = [destroys EXCEPT !.encoder =
                         @ + encoder_deleter(outcome)]
       /\ pool' = IF outcome = "ok" THEN "alive" ELSE "none"
       /\ poolQueue' = IF outcome = "ok"
                         THEN [i \in 1..NumBuffers |-> i] ELSE <<>>
  /\ mainpc' = "get_ports"
  /\ UNCHANGED <<q, unlockCalls, camera_component, encoder_connection, conn,
                 faults, port_enabled, userdata, capture, atPort, lost,
                 nOutput, cbVars, queueVars, progVars,
                 state, requested, encoder_output, camera_video, cmdVars>>

\* a connection that could not be enabled is returned as it is
connect_ports_result_unchecked(outcome) ==
  CASE outcome = "create_failed" ->
         [connection |-> FALSE, conn |-> "none", destroyed |-> 0]
    [] outcome = "enable_failed" ->
         [connection |-> TRUE, conn |-> "created", destroyed |-> 0]
    [] OTHER -> [connection |-> TRUE, conn |-> "enabled", destroyed |-> 0]

\* lines 338-353: what is returned, what became of the connection and how
\* often mmal_connection_destroy was called
connect_ports_result(outcome) ==
  CASE outcome = "create_failed" ->
         [connection |-> FALSE, conn |-> "none", destroyed |-> 0]
    [] outcome = "enable_failed" ->
         [connection |-> FALSE, conn |-> "destroyed", destroyed |-> 1]
    [] OTHER -> [connection |-> TRUE, conn |-> "enabled", destroyed |-> 0]

\* raspicam::connect_ports: null when the connection cannot be created,
\* null with the connection destroyed when it cannot be enabled.
connect_ports ==
  /\ mainpc = "connect"
  /\ \E outcome \in {"create_failed", "enable_failed", "ok"} :
       /\ encoder_connection' = connect_ports_result(outcome).connection
       /\ conn' = connect_ports_result(outcome).conn
       /\ destroys' = [destroys EXCEPT !.connection =
                         @ + connect_ports_result(outcome).destroyed]
  /\ mainpc' = "set_userdata"
  /\ UNCHANGED <<q, unlockCalls, camera_component, encoder_component,
                 encoder_pool, stage, pool, faults, port_enabled, userdata,
                 capture, bufVars, cbVars, queueVars, progVars,
                 cfgVars>>

\* ------------------------------------------------- gst_pi_cam_init
\* lines 132-138: the ports are read through both component pointers
get_ports ==
  /\ mainpc = "get_ports"
  /\ IF camera_component /\ encoder_component
       THEN /\ mainpc' = "connect"
            /\ UNCHANGED faults
       ELSE /\ mainpc' = "crashed"
            /\ faults' = faults \cup {"get_ports"}
  /\ UNCHANGED <<q, unlockCalls, ptrVars, stage, conn, pool, destroys,
                 port_enabled, userdata, capture, bufVars, cbVars, queueVars,
                 progVars,
                 cfgVars>>

\* an init that leaves the port's userdata as it was
set_userdata_skipped ==
  /\ mainpc = "set_userdata"
  /\ mainpc' = "enable_port"
  /\ UNCHANGED <<q, unlockCalls, ptrVars, objVars, bufVars, cbVars, queueVars,
                 progVars, cfgVars>>

\* line 143
set_userdata ==
  /\ mainpc = "set_userdata"
  /\ userdata' = TRUE
  /\ mainpc' = "enable_port"
  /\ UNCHANGED <<q, unlockCalls, ptrVars, stage, conn, pool, destroys, faults,
                 port_enabled, capture, bufVars, cbVars, queueVars, progVars,
                 cfgVars>>

\* line 145: the status of mmal_port_enable is not looked at
enable_port ==
  /\ mainpc = "enable_port"
  /\ \E ok \in BOOLEAN : port_enabled' = ok
  /\ q' = 0
  /\ mainpc' = "prime_test"
  /\ UNCHANGED <<unlockCalls, ptrVars, stage, conn, pool, destroys, faults,
                 userdata, capture, bufVars, cbVars, queueVars, progVars,
                 cfgVars>>

\* mmal_port_send_buffer: fails on a port that is not enabled, and may fail
\* on an enabled one
send_results(enabled) == IF enabled THEN {TRUE, FALSE} ELSE {FALSE}

\* line 147: q < mmal_queue_length(picam->encoder_pool->queue), evaluated
\* before every iteration
prime_continue(i, freeList) == i < Len(freeList)

prime_test ==
  /\ mainpc = "prime_test"
  /\ IF ~encoder_pool
       THEN /\ mainpc' = "crashed"
            /\ faults' = faults \cup {"prime_test"}
       ELSE /\ mainpc' = IF prime_continue(q, poolQueue)
                           THEN "prime_send" ELSE "constructed"
            /\ UNCHANGED faults
  /\ UNCHANGED <<q, unlockCalls, ptrVars, stage, conn, pool, destroys,
                 port_enabled, userdata, capture, bufVars, cbVars, queueVars,
                 progVars,
                 cfgVars>>

\* lines 148-156: one iteration; a failed send is only logged
prime_send ==
  /\ mainpc = "prime_send"
  /\ poolQueue' = Tail(poolQueue)
  /\ \E ok \in send_results(port_enabled) :
       IF ok THEN /\ atPort' = Append(atPort, Head(poolQueue))
                  /\ UNCHANGED lost
             ELSE /\ lost' = lost \cup {Head(poolQueue)}
                  /\ UNCHANGED atPort
  /\ q' = q + 1
  /\ mainpc' = "prime_test"
  /\ UNCHANGED <<unlockCalls, ptrVars, objVars, nOutput, cbVars, queueVars,
                 progVars,
                 cfgVars>>

\* ------------------------------------------------- GstBaseSrc methods
\* gst_pi_cam_start: requests capture, warns when that fails, returns TRUE
gst_pi_cam_start ==
  /\ mainpc = "constructed"
  /\ \E ok \in BOOLEAN : capture' = ok
  /\ mainpc' = "started"
  /\ UNCHANGED <<q, unlockCalls, ptrVars, stage, conn, pool, destroys, faults,
                 port_enabled, userdata, bufVars, cbVars, queueVars, progVars,
                 cfgVars>>

\* gst_pi_cam_unlock: logs and returns TRUE
gst_pi_cam_unlock ==
  /\ mainpc = "started"
  /\ unlockCalls' = unlockCalls + 1
  /\ mainpc' = "unlocked"
  /\ UNCHANGED <<q, ptrVars, objVars, bufVars, cbVars, queueVars, progVars,
                 cfgVars>>

\* gst_pi_cam_stop: logs and returns TRUE
gst_pi_cam_stop ==
  /\ mainpc = "unlocked"
  /\ mainpc' = "stopped"
  /\ UNCHANGED <<q, unlockCalls, ptrVars, objVars, bufVars, cbVars, queueVars,
                 progVars,
                 cfgVars>>

\* ------------------------------------------------- the encoder callback
\* The MMAL runtime hands a filled buffer to mmal_encoder_buffer_callback
\* (lines 53-59: the context is read and the release guard is armed).
callback_enter ==
  /\ cbpc = "idle"
  /\ port_enabled /\ capture
  /\ conn = "enabled" /\ stage.camera = "enabled" /\ stage.encoder = "enabled"
  /\ nOutput < MaxFrames
  /\ atPort # <<>>
  /\ atPort' = Tail(atPort)
  /\ \E len \in 0..MaxLen, side \in BOOLEAN :
       mmal_buffer' = [id |-> Head(atPort), length |-> len, sideinfo |-> side,
                          data |-> Payload(nOutput + 1)]
  /\ nOutput' = nOutput + 1
  /\ cbTrace' = <<>>
  /\ cbEntry' = Len(pushed)
  /\ cbpc' = "check_length"
  /\ UNCHANGED <<mainVars, ptrVars, objVars, poolQueue, lost, new_buffer,
                 gst_buffer, queueVars, progVars,
                 cfgVars>>

\* an early return that runs no guard
scope_exit_unguarded(line) == IF line = 61 THEN "done" ELSE "mem_unlock"

\* where control goes when the function is left at a given line: the guards
\* armed so far run in reverse order of their construction
scope_exit(line) == IF line = 61 THEN "release" ELSE "mem_unlock"

\* line 61
callback_check_length ==
  /\ cbpc = "check_length"
  /\ cbpc' = IF mmal_buffer.length = 0 THEN scope_exit(61) ELSE "mem_lock"
  /\ UNCHANGED <<mainVars, ptrVars, objVars, bufVars, mmal_buffer, new_buffer,
                 gst_buffer, cbTrace, cbEntry, queueVars, progVars,
                 cfgVars>>

\* lines 63-64
callback_mem_lock ==
  /\ cbpc = "mem_lock"
  /\ cbTrace' = Append(cbTrace, "lock")
  /\ cbpc' = "check_flags"
  /\ UNCHANGED <<mainVars, ptrVars, objVars, bufVars, mmal_buffer, new_buffer,
                 gst_buffer, cbEntry, queueVars, progVars,
                 cfgVars>>

\* a test that takes every buffer for payload
never_sideinfo(buf) == FALSE

\* mmal_buffer->flags & MMAL_BUFFER_HEADER_FLAG_CODECSIDEINFO
is_sideinfo(buf) == buf.sideinfo

\* line 66
callback_check_flags ==
  /\ cbpc = "check_flags"
  /\ cbpc' = IF is_sideinfo(mmal_buffer) THEN scope_exit(66) ELSE "alloc_copy"
  /\ UNCHANGED <<mainVars, ptrVars, objVars, bufVars, mmal_buffer, new_buffer,
                 gst_buffer, cbTrace, cbEntry, queueVars, progVars,
                 cfgVars>>

\* lines 68-71: a new GstBuffer of mmal_buffer->length bytes, filled by memcpy
copy_payload(buf) ==
  [len |-> buf.length, data |-> SubSeq(buf.data, 1, buf.length)]

callback_alloc_copy ==
  /\ cbpc = "alloc_copy"
  /\ gst_buffer' = copy_payload(mmal_buffer)
  /\ cbTrace' = Append(cbTrace, "copy")
  /\ cbpc' = "queue_lock"
  /\ UNCHANGED <<mainVars, ptrVars, objVars, bufVars, mmal_buffer, new_buffer,
                 cbEntry, queueVars, progVars,
                 cfgVars>>

\* line 74
callback_queue_lock ==
  /\ cbpc = "queue_lock"
  /\ mutex = Free
  /\ mutex' = CB
  /\ cbpc' = "push"
  /\ UNCHANGED <<mainVars, ptrVars, objVars, bufVars, mmal_buffer, new_buffer,
                 gst_buffer, cbTrace, cbEntry, queue, cpc, cret, pushed,
                 popped, popEmpty, progVars,
                 cfgVars>>

\* a push at the wrong end of the queue
queue_push_front(qu, x) == <<x>> \o qu

\* std::queue::push
queue_push(qu, x) == Append(qu, x)

\* line 75
callback_push ==
  /\ cbpc = "push"
  /\ queue' = queue_push(queue, gst_buffer)
  /\ pushed' = Append(pushed, gst_buffer)
  /\ cbTrace' = Append(cbTrace, "push")
  /\ cbpc' = "queue_unlock"
  /\ UNCHANGED <<mainVars, ptrVars, objVars, bufVars, mmal_buffer, new_buffer,
                 gst_buffer, cbEntry, mutex, cpc, cret, popped, popEmpty,
                 progVars,
                 cfgVars>>

\* line 76
callback_queue_unlock ==
  /\ cbpc = "queue_unlock"
  /\ mutex' = Free
  /\ cbpc' = "notify"
  /\ UNCHANGED <<mainVars, ptrVars, objVars, bufVars, mmal_buffer, new_buffer,
                 gst_buffer, cbTrace, cbEntry, queue, cpc, cret, pushed,
                 popped, popEmpty, progVars,
                 cfgVars>>

\* a notification that wakes nobody
notify_nobody(pcs) == {pcs}

\* std::condition_variable::notify_one: wakes one of the threads waiting, if
\* there is one; the set of positions the consumers can be left in
notify_one(pcs) ==
  IF \E c \in Consumers : pcs[c] = "waiting"
    THEN {[pcs EXCEPT ![c] = "woken"] : c \in {d \in Consumers : pcs[d] = "waiting"}}
    ELSE {pcs}

\* line 77
callback_notify ==
  /\ cbpc = "notify"
  /\ cpc' \in notify_one(cpc)
  /\ cbTrace' = Append(cbTrace, "notify")
  /\ cbpc' = scope_exit(78)
  /\ UNCHANGED <<mainVars, ptrVars, objVars, bufVars, mmal_buffer, new_buffer,
                 gst_buffer, cbEntry, queue, mutex, cret, pushed, popped,
                 popEmpty, progVars,
                 cfgVars>>

\* a guard that was never armed: the buffer stays locked
callback_mem_unlock_omitted ==
  /\ cbpc = "mem_unlock"
  /\ cbpc' = "release"
  /\ UNCHANGED <<mainVars, ptrVars, objVars, bufVars, mmal_buffer, new_buffer,
                 gst_buffer, cbTrace, cbEntry, queueVars, progVars,
                 cfgVars>>

\* line 64, the unlock_buffer guard
callback_mem_unlock ==
  /\ cbpc = "mem_unlock"
  /\ cbTrace' = Append(cbTrace, "unlock")
  /\ cbpc' = "release"
  /\ UNCHANGED <<mainVars, ptrVars, objVars, bufVars, mmal_buffer, new_buffer,
                 gst_buffer, cbEntry, queueVars, progVars,
                 cfgVars>>

\* line 57, first half of the raiiBufferRelease guard:
\* mmal_buffer_header_release puts the header back on the pool's free list
callback_release ==
  /\ cbpc = "release"
  /\ poolQueue' = Append(poolQueue, mmal_buffer.id)
  /\ cbTrace' = Append(cbTrace, "release")
  /\ cbpc' = "return_buffer"
  /\ UNCHANGED <<mainVars, ptrVars, objVars, atPort, lost, nOutput,
                 mmal_buffer, new_buffer, gst_buffer, cbEntry, queueVars,
                 progVars,
                 cfgVars>>

\* a resubmission that does not look at the port
port_check_missing(enabled) == "return_get"

\* lines 36-38: nothing is done on a port that is not enabled
port_check(enabled) == IF enabled THEN "return_get" ELSE "done"

\* line 58 and lines 35-38: picam->encoder_pool->queue is read and
\* mmal_return_buffer_to_port is entered
mmal_return_buffer_to_port_enter ==
  /\ cbpc = "return_buffer"
  /\ IF ~encoder_pool
       THEN /\ faults' = faults \cup {"mmal_encoder_buffer_callback"}
            /\ cbpc' = "crashed"
            /\ UNCHANGED cbTrace
       ELSE /\ cbTrace' = Append(cbTrace, "recycle")
            /\ cbpc' = port_check(port_enabled)
            /\ UNCHANGED faults
  /\ UNCHANGED <<mainVars, ptrVars, stage, conn, pool, destroys, port_enabled,
                 userdata, capture, bufVars, mmal_buffer, new_buffer,
                 gst_buffer, cbEntry, queueVars, progVars,
                 cfgVars>>

\* lines 40-45
mmal_return_buffer_to_port_get ==
  /\ cbpc = "return_get"
  /\ IF poolQueue = <<>>
       THEN /\ cbpc' = "done"
            /\ UNCHANGED <<poolQueue, new_buffer>>
       ELSE /\ new_buffer' = Head(poolQueue)
            /\ poolQueue' = Tail(poolQueue)
            /\ cbpc' = "return_send"
  /\ UNCHANGED <<mainVars, ptrVars, objVars, atPort, lost, nOutput,
                 mmal_buffer, gst_buffer, cbTrace, cbEntry, queueVars, progVars,
                 cfgVars>>

\* lines 47-50: a failed send is logged and the header is dropped
mmal_return_buffer_to_port_send ==
  /\ cbpc = "return_send"
  /\ \E ok \in send_results(port_enabled) :
       IF ok THEN /\ atPort' = Append(atPort, new_buffer)
                  /\ UNCHANGED lost
             ELSE /\ lost' = lost \cup {new_buffer}
                  /\ UNCHANGED atPort
  /\ new_buffer' = 0
  /\ cbpc' = "done"
  /\ UNCHANGED <<mainVars, ptrVars, objVars, poolQueue, nOutput, mmal_buffer,
                 gst_buffer, cbTrace, cbEntry, queueVars, progVars,
                 cfgVars>>

\* line 78: the callback returns to the runtime
callback_return ==
  /\ cbpc = "done"
  /\ mmal_buffer' = NoBuffer
  /\ gst_buffer' = NoFrame
  /\ cbpc' = "idle"
  /\ UNCHANGED <<mainVars, ptrVars, objVars, bufVars, new_buffer, cbTrace,
                 cbEntry, queueVars, progVars,
                 cfgVars>>

\* ------------------------------------------------- gst_pi_cam_create
\* the streaming thread calls create while the source is started
create_call(c) ==
  /\ cpc[c] = "idle"
  /\ mainpc = "started"
  /\ cpc' = [cpc EXCEPT ![c] = "lock"]
  /\ cret' = [cret EXCEPT ![c] = "none"]
  /\ UNCHANGED <<mainVars, ptrVars, objVars, bufVars, cbVars, queue, mutex,
                 pushed, popped, popEmpty, progVars,
                 cfgVars>>

\* line 286
create_lock(c) ==
  /\ cpc[c] = "lock"
  /\ mutex = Free
  /\ mutex' = c
  /\ cpc' = [cpc EXCEPT ![c] = "wait"]
  /\ UNCHANGED <<mainVars, ptrVars, objVars, bufVars, cbVars, queue, cret,
                 pushed, popped, popEmpty, progVars,
                 cfgVars>>

\* a wait that returns on any wake-up without looking at the queue
wait_no_predicate(qu) == TRUE

\* the predicate handed to wait: [&] () { return !picam->queue.empty(); }
wait_predicate(qu) == qu # <<>>

\* line 287, with the mutex held: wait(lock, pred) is while (!pred())
\* wait(lock); the mutex is released atomically with going to sleep
create_wait(c) ==
  /\ cpc[c] = "wait"
  /\ mutex = c
  /\ IF wait_predicate(queue)
       THEN /\ cpc' = [cpc EXCEPT ![c] = "pop"]
            /\ UNCHANGED mutex
       ELSE /\ cpc' = [cpc EXCEPT ![c] = "waiting"]
            /\ mutex' = Free
  /\ UNCHANGED <<mainVars, ptrVars, objVars, bufVars, cbVars, queue, cret,
                 pushed, popped, popEmpty, progVars,
                 cfgVars>>

\* a condition variable may wake a waiter without any notification
create_spurious_wake(c) ==
  /\ cpc[c] = "waiting"
  /\ cpc' = [cpc EXCEPT ![c] = "woken"]
  /\ UNCHANGED <<mainVars, ptrVars, objVars, bufVars, cbVars, queue, mutex,
                 cret, pushed, popped, popEmpty, progVars,
                 cfgVars>>

\* a woken waiter takes the mutex again before wait looks at the predicate
create_relock(c) ==
  /\ cpc[c] = "woken"
  /\ mutex = Free
  /\ mutex' = c
  /\ cpc' = [cpc EXCEPT ![c] = "wait"]
  /\ UNCHANGED <<mainVars, ptrVars, objVars, bufVars, cbVars, queue, cret,
                 pushed, popped, popEmpty, progVars,
                 cfgVars>>

\* lines 288-289: front() and pop(); on an empty std::queue both are
\* undefined, and what the caller gets is whatever the build produces
create_pop(c) ==
  /\ cpc[c] = "pop"
  /\ mutex = c
  /\ IF queue # <<>>
       THEN /\ popped' = Append(popped, Head(queue))
            /\ queue' = Tail(queue)
            /\ UNCHANGED popEmpty
       ELSE /\ popEmpty' = popEmpty + 1
            /\ \E junk \in {NoFrame} \cup Range(pushed) :
                 popped' = Append(popped, junk)
            /\ UNCHANGED queue
  /\ cpc' = [cpc EXCEPT ![c] = "return"]
  /\ UNCHANGED <<mainVars, ptrVars, objVars, bufVars, cbVars, mutex, cret,
                 pushed, progVars,
                 cfgVars>>

\* line 293: the lock guard releases the mutex, GST_FLOW_OK is returned
create_return(c) ==
  /\ cpc[c] = "return"
  /\ mutex = c
  /\ mutex' = Free
  /\ cret' = [cret EXCEPT ![c] = "GST_FLOW_OK"]
  /\ cpc' = [cpc EXCEPT ![c] = "idle"]
  /\ UNCHANGED <<mainVars, ptrVars, objVars, bufVars, cbVars, queue, pushed,
                 popped, popEmpty, progVars,
                 cfgVars>>

\* ------------------------------------------------- the element
Next ==
  \/ create_camera_component
  \/ encoder_component_create
  \/ encoder_bitrate
  \/ encoder_commit
  \/ encoder_intraperiod
  \/ encoder_slices
  \/ encoder_quant
  \/ encoder_profile
  \/ encoder_inline_headers
  \/ encoder_sps_timing
  \/ encoder_intra_refresh
  \/ create_encoder_component
  \/ get_ports
  \/ connect_ports
  \/ set_userdata
  \/ enable_port
  \/ prime_test
  \/ prime_send
  \/ gst_pi_cam_start
  \/ gst_pi_cam_unlock
  \/ gst_pi_cam_stop
  \/ callback_enter
  \/ callback_check_length
  \/ callback_mem_lock
  \/ callback_check_flags
  \/ callback_alloc_copy
  \/ callback_queue_lock
  \/ callback_push
  \/ callback_queue_unlock
  \/ callback_notify
  \/ callback_mem_unlock
  \/ callback_release
  \/ mmal_return_buffer_to_port_enter
  \/ mmal_return_buffer_to_port_get
  \/ mmal_return_buffer_to_port_send
  \/ callback_return
  \/ \E c \in Consumers : create_call(c)
  \/ \E c \in Consumers : create_lock(c)
  \/ \E c \in Consumers : create_wait(c)
  \/ \E c \in Consumers : create_spurious_wake(c)
  \/ \E c \in Consumers : create_relock(c)
  \/ \E c \in Consumers : create_pop(c)
  \/ \E c \in Consumers : create_return(c)

Spec == Init /\ [][Next]_vars

\* a step of the callback thread that needs nothing from another thread
callback_step ==
  \/ callback_check_length
  \/ callback_mem_lock
  \/ callback_check_flags
  \/ callback_alloc_copy
  \/ callback_push
  \/ callback_queue_unlock
  \/ callback_notify
  \/ callback_mem_unlock
  \/ callback_release
  \/ mmal_return_buffer_to_port_enter
  \/ mmal_return_buffer_to_port_get
  \/ mmal_return_buffer_to_port_send
  \/ callback_return

\* a step of a consumer that holds the mutex
create_step(c) == create_wait(c) \/ create_pop(c) \/ create_return(c)

\* a consumer taking the mutex, on entry or after a wake-up
create_acquire(c) == create_lock(c) \/ create_relock(c)

\* every thread that can take a step eventually does; a thread that asks for
\* the mutex gets it if the mutex keeps becoming free.  The runtime is not
\* obliged to produce buffers, the application is not obliged to call, and a
\* condition variable is not obliged to wake anyone spuriously.
Fairness ==
  /\ WF_vars(callback_step)
  /\ SF_vars(callback_queue_lock)
  /\ \A c \in Consumers : WF_vars(create_step(c)) /\ SF_vars(create_acquire(c))

FairSpec == Spec /\ Fairness

\* ------------------------------------------------- properties
\* the number the encoder gave the buffer a frame was copied from
FrameNo(f) == f.data[1]

InQueue(k) == \E i \in 1..Len(queue) : FrameNo(queue[i]) = k

Popped(k) == \E i \in 1..Len(popped) : popped[i] # NoFrame /\ FrameNo(popped[i]) = k

Blocked(c) == cpc[c] = "waiting"

InCall(c) == cpc[c] \in {"lock", "wait", "waiting", "woken"}

\* C1: the frames returned by gst_pi_cam_create, in the order of the pops,
\* are a prefix of the frames the callback pushed, in the order of the
\* pushes: nothing is reordered, merged or dropped.
C1_FifoPrefix == IsPrefix(popped, pushed)

\* every buffer the encoder filled became a frame and every frame was returned
C1_Witness == Len(pushed) = MaxFrames /\ Len(popped) = MaxFrames

\* C2: gst_pi_cam_create never pops an empty queue and no frame is returned
\* by two calls, also when several consumers wait or arrive together.
C2_NoEmptyPopNoDuplicate ==
  /\ popEmpty = 0
  /\ Len(popped) <= Len(pushed)
  /\ \A i, j \in 1..Len(popped) : i # j => popped[i] # popped[j]

\* a consumer has been woken on an emptied queue and must test the
\* predicate again, while the other consumer leaves with a frame
C2_Witness ==
  \E c, d \in Consumers :
    /\ c # d
    /\ cpc[c] = "woken" /\ cpc[d] = "return"
    /\ queue = <<>> /\ Len(popped) >= 1

\* C3: no lost wake-up.  A frame that is in the queue while a consumer
\* sleeps on the condition variable, and the frame at the head of the queue
\* while a consumer is inside gst_pi_cam_create, is eventually returned.
C3_NoLostWakeup ==
  \A k \in 1..MaxFrames :
    ( \/ InQueue(k) /\ \E c \in Consumers : Blocked(c)
      \/ queue # <<>> /\ FrameNo(Head(queue)) = k /\ \E c \in Consumers : InCall(c) )
    ~> Popped(k)

\* the callback has pushed and notified, and the consumer that slept is awake
C3_Witness ==
  /\ cbpc = "mem_unlock"
  /\ queue # <<>>
  /\ \E c \in Consumers : cpc[c] = "woken"
  /\ \E c \in Consumers : cpc[c] = "waiting"

\* ------------------------------------------------- the buffer pool
InFree(b) == \E i \in 1..Len(poolQueue) : poolQueue[i] = b

InFlight(b) == \E i \in 1..Len(atPort) : atPort[i] = b

\* the header the callback was handed and has not released yet, and the
\* header mmal_return_buffer_to_port took from the free list
Held(b) ==
  \/ mmal_buffer.id = b /\ cbpc # "idle" /\ Count(cbTrace, "release") = 0
  \/ new_buffer = b

Places(b) == (IF InFree(b) THEN 1 ELSE 0) + (IF InFlight(b) THEN 1 ELSE 0)
               + (IF Held(b) THEN 1 ELSE 0)

HeldCount == Cardinality({b \in Buffers : Held(b)})

\* C4: while the pool exists every hardware buffer is in exactly one of
\* the free list, the output port and the hands of a running callback, and
\* the three counts add up to the size of the pool.
C4_BufferConservation ==
  pool = "alive" =>
    /\ \A b \in Buffers : Places(b) = 1
    /\ Len(poolQueue) + Len(atPort) + HeldCount = NumBuffers

\* C5: an invocation of the callback releases its buffer exactly once and
\* then calls mmal_return_buffer_to_port exactly once, on every path.
C5_ReleaseOnceRecycleOnce ==
  /\ Count(cbTrace, "release") <= 1
  /\ Count(cbTrace, "recycle") <= Count(cbTrace, "release")
  /\ cbpc = "done" =>
       /\ Count(cbTrace, "release") = 1
       /\ Count(cbTrace, "recycle") = 1

\* the last invocation, for a zero-length buffer, has reached its return
\* and no invocation so far took the path that pushes a frame
C5_Witness ==
  /\ cbpc = "done"
  /\ mmal_buffer.length = 0
  /\ nOutput = MaxFrames
  /\ pushed = <<>>

\* C6: an invocation for a zero-length or side-info buffer pushes nothing;
\* any other invocation pushes exactly one frame, whose length and bytes
\* are those of the hardware buffer.
C6_QueueEffect ==
  /\ Len(pushed) \in {cbEntry, cbEntry + 1}
  /\ cbpc = "done" =>
       IF mmal_buffer.length = 0 \/ mmal_buffer.sideinfo
         THEN Len(pushed) = cbEntry
         ELSE /\ Len(pushed) = cbEntry + 1
              /\ pushed[Len(pushed)].len = mmal_buffer.length
              /\ Len(pushed[Len(pushed)].data) = mmal_buffer.length
              /\ \A i \in 1..mmal_buffer.length :
                   pushed[Len(pushed)].data[i] = mmal_buffer.data[i]

\* a side-info buffer with payload went through without a push, after a
\* payload buffer was pushed
C6_Witness ==
  /\ cbpc = "done"
  /\ mmal_buffer.sideinfo /\ mmal_buffer.length > 0
  /\ Len(pushed) = 1 /\ cbEntry = 1

\* C7: after the priming loop, on an enabled port and with every send
\* accepted, all buffers of the pool are at the port and the free list is
\* empty.
C7_PrimeSendsAll ==
  (mainpc = "constructed" /\ port_enabled /\ lost = {}) =>
    (poolQueue = <<>> /\ Len(atPort) = NumBuffers)

\* C8: a consumer that sleeps in gst_pi_cam_create when unlock or stop has
\* been called leaves the call, unless a frame arrives.
C8_StopUnblocks ==
  \A c \in Consumers :
    (mainpc \in {"unlocked", "stopped"} /\ cpc[c] = "waiting")
      ~> (cpc[c] = "idle" \/ queue # <<>>)

\* C9: once stop has returned the output port is disabled, the connection,
\* both stages and the pool are gone and the queue is empty.
C9_StopTearsDown ==
  mainpc = "stopped" =>
    /\ ~port_enabled
    /\ conn # "enabled"
    /\ stage.camera \in {"none", "destroyed"}
    /\ stage.encoder \in {"none", "destroyed"}
    /\ pool # "alive"
    /\ queue = <<>>

\* C11: once teardown has returned, or has destroyed the pool, the encoder
\* output port is disabled, and a callback that finds the port disabled
\* takes no header from the free list to send it to the port.
C11_PortDisabledFirst ==
  /\ (mainpc = "stopped" \/ pool = "destroyed") => ~port_enabled
  /\ ~port_enabled => cbpc \notin {"return_get", "return_send"}

\* nothing of the pipeline is left
NothingAlive ==
  /\ conn # "enabled"
  /\ stage.camera \in {"none", "destroyed"}
  /\ stage.encoder \in {"none", "destroyed"}
  /\ pool # "alive"

\* C12: construction dereferences no null component, port or pool; after a
\* failed camera creation the encoder is not created; and when construction
\* ends with a step failed, no stage, connection or pool is left alive.
C12_FailureTearsDown ==
  /\ faults \cap {"get_ports", "prime_test"} = {}
  /\ (mainpc # "create_camera" /\ ~camera_component) =>
       (stage.encoder = "none" /\ pool = "none")
  /\ (mainpc = "constructed" /\ (~encoder_connection \/ ~port_enabled)) =>
       NothingAlive

\* C14: neither the priming loop nor the encoder callback reads the queue
\* of a null pool.
C14_NoNullPoolDereference ==
  faults \cap {"prime_test", "main_prime_test", "mmal_encoder_buffer_callback",
               "encoder_buffer_callback"} = {}

\* ======================================================================
\* cam_controller.cpp: main, its encoder callback and its teardown
\* ======================================================================
MainInit ==
  /\ InitCommon
  /\ impl = "cam_controller"
  /\ mainpc = "m_create_camera"
  /\ DefaultConfig

\* lines 643-796 and 1151-1153: on an error the component, if it was
\* created, is destroyed and state->camera_component is left null
main_create_camera_component ==
  /\ mainpc = "m_create_camera"
  /\ \E outcome \in {"create_failed", "step_failed", "ok"} :
       /\ camera_component' = (outcome = "ok")
       /\ stage' = [stage EXCEPT !.camera =
                      CASE outcome = "create_failed" -> "none"
                        [] outcome = "step_failed" -> "destroyed"
                        [] OTHER -> "enabled"]
       /\ destroys' = [destroys EXCEPT !.camera =
                         IF outcome = "step_failed" THEN @ + 1 ELSE @]
       /\ status' = IF outcome = "ok" THEN "MMAL_SUCCESS" ELSE "MMAL_FAILURE"
       /\ exit_code' = IF outcome = "ok" THEN exit_code ELSE "EX_SOFTWARE"
       /\ mainpc' = IF outcome = "ok" THEN "m_create_encoder" ELSE "m_return"
       /\ camera_video' = IF outcome = "ok"
                            THEN video_format(state, camera_video)
                            ELSE camera_video
  /\ UNCHANGED <<q, unlockCalls, encoder_component, encoder_connection,
                 encoder_pool, conn, pool, faults, port_enabled, userdata,
                 capture, bufVars, cbVars, queueVars, impl, abort,
                 state, requested, encoder_output, encpc, set_calls,
                 cmdVars>>

\* lines 1046-1077 and 1154-1157: on an error the encoder is destroyed and
\* state->encoder_component is null; on success the pool pointer is stored
\* whether or not mmal_port_pool_create returned null
main_create_encoder_component ==
  /\ mainpc = "m_create_encoder"
  /\ encpc \in {"enable", "failed", "create_failed"}
  /\ encpc' = "returned"
  /\ set_calls' = {}
  /\ \E outcome \in encoder_outcomes(encpc) :
       /\ encoder_component' = (outcome \in {"no_pool", "ok"})
       /\ encoder_pool' = (outcome = "ok")
       /\ stage' = [stage EXCEPT !.encoder =
                      CASE outcome = "create_failed" -> "none"
                        [] outcome = "step_failed" -> "destroyed"
                        [] OTHER -> "enabled"]
       /\ destroys' = [destroys EXCEPT !.encoder =
                         IF outcome = "step_failed" THEN @ + 1 ELSE @]
       /\ pool' = IF outcome = "ok" THEN "alive" ELSE "none"
       /\ poolQueue' = IF outcome = "ok"
                         THEN [i \in 1..NumBuffers |-> i] ELSE <<>>
       /\ status' = IF outcome \in {"no_pool", "ok"}
                      THEN "MMAL_SUCCESS" ELSE "MMAL_FAILURE"
       /\ exit_code' = IF outcome \in {"no_pool", "ok"}
                         THEN exit_code ELSE "EX_SOFTWARE"
       /\ mainpc' = IF outcome \in {"no_pool", "ok"}
                      THEN "m_connect" ELSE "m_destroy_camera_early"
  /\ UNCHANGED <<q, unlockCalls, camera_component, encoder_connection, conn,
                 faults, port_enabled, userdata, capture, atPort, lost,
                 nOutput, cbVars, queueVars, impl, abort,
                 state, requested, encoder_output, camera_video, cmdVars>>

\* lines 1162-1177, with connect_ports of RaspiHelpers: the connection is
\* created and enabled, and destroyed again when enabling fails
main_connect_ports ==
  /\ mainpc = "m_connect"
  /\ \E outcome \in {"create_failed", "enable_failed", "ok"} :
       /\ encoder_connection' = (outcome = "ok")
       /\ conn' = CASE outcome = "create_failed" -> "none"
                    [] outcome = "enable_failed" -> "destroyed"
                    [] OTHER -> "enabled"
       /\ destroys' = [destroys EXCEPT !.connection =
                         IF outcome = "enable_failed" THEN @ + 1 ELSE @]
       /\ status' = IF outcome = "ok" THEN "MMAL_SUCCESS" ELSE "MMAL_FAILURE"
       /\ mainpc' = IF outcome = "ok" THEN "m_set_userdata"
                                      ELSE "m_check_disable_port"
  /\ UNCHANGED <<q, unlockCalls, camera_component, encoder_component,
                 encoder_pool, stage, pool, faults, port_enabled, userdata,
                 capture, bufVars, cbVars, queueVars, impl, abort, exit_code,
                 cfgVars>>

\* lines 1179-1201
main_set_userdata ==
  /\ mainpc = "m_set_userdata"
  /\ abort' = 0
  /\ userdata' = TRUE
  /\ mainpc' = "m_enable_port"
  /\ UNCHANGED <<q, unlockCalls, ptrVars, stage, conn, pool, destroys, faults,
                 port_enabled, capture, bufVars, cbVars, queueVars, impl,
                 status, exit_code,
                 cfgVars>>

\* lines 1207-1212
main_enable_port ==
  /\ mainpc = "m_enable_port"
  /\ \E ok \in BOOLEAN :
       /\ port_enabled' = ok
       /\ status' = IF ok THEN "MMAL_SUCCESS" ELSE "MMAL_FAILURE"
       /\ mainpc' = IF ok THEN "m_prime_test" ELSE "m_check_disable_port"
  /\ q' = 0
  /\ UNCHANGED <<unlockCalls, ptrVars, stage, conn, pool, destroys, faults,
                 userdata, capture, bufVars, cbVars, queueVars, impl, abort,
                 exit_code,
                 cfgVars>>

\* line 1215: q < mmal_queue_length(state.encoder_pool->queue)
main_prime_test ==
  /\ mainpc = "m_prime_test"
  /\ IF ~encoder_pool
       THEN /\ mainpc' = "crashed"
            /\ faults' = faults \cup {"main_prime_test"}
       ELSE /\ mainpc' = IF prime_continue(q, poolQueue)
                           THEN "m_prime_send" ELSE "m_capture"
            /\ UNCHANGED faults
  /\ UNCHANGED <<q, unlockCalls, ptrVars, stage, conn, pool, destroys,
                 port_enabled, userdata, capture, bufVars, cbVars, queueVars,
                 progVars,
                 cfgVars>>

\* lines 1216-1224
main_prime_send ==
  /\ mainpc = "m_prime_send"
  /\ poolQueue' = Tail(poolQueue)
  /\ \E ok \in send_results(port_enabled) :
       IF ok THEN /\ atPort' = Append(atPort, Head(poolQueue))
                  /\ UNCHANGED lost
             ELSE /\ lost' = lost \cup {Head(poolQueue)}
                  /\ UNCHANGED atPort
  /\ q' = q + 1
  /\ mainpc' = "m_prime_test"
  /\ UNCHANGED <<unlockCalls, ptrVars, objVars, nOutput, cbVars, queueVars,
                 progVars,
                 cfgVars>>

\* lines 1227-1229: a failure to start capture is not handled
main_capture ==
  /\ mainpc = "m_capture"
  /\ \E ok \in BOOLEAN : capture' = ok
  /\ mainpc' = "m_wait"
  /\ UNCHANGED <<q, unlockCalls, ptrVars, stage, conn, pool, destroys, faults,
                 port_enabled, userdata, bufVars, cbVars, queueVars, progVars,
                 cfgVars>>

\* line 1236: while (!state.callback_data.abort)
main_wait ==
  /\ mainpc = "m_wait"
  /\ mainpc' = IF abort # 0 THEN "m_check_disable_port" ELSE "m_sleep"
  /\ UNCHANGED <<q, unlockCalls, ptrVars, objVars, bufVars, cbVars, queueVars,
                 progVars,
                 cfgVars>>

\* line 1238: vcos_sleep(ABORT_INTERVAL)
main_sleep ==
  /\ mainpc = "m_sleep"
  /\ mainpc' = "m_wait"
  /\ UNCHANGED <<q, unlockCalls, ptrVars, objVars, bufVars, cbVars, queueVars,
                 progVars,
                 cfgVars>>

\* line 1250, with check_disable_port of RaspiHelpers: the port is disabled
\* if it is enabled
main_check_disable_port ==
  /\ mainpc = "m_check_disable_port"
  /\ port_enabled' = FALSE
  /\ mainpc' = "m_destroy_connection"
  /\ UNCHANGED <<q, unlockCalls, ptrVars, stage, conn, pool, destroys, faults,
                 userdata, capture, bufVars, cbVars, queueVars, progVars,
                 cfgVars>>

\* a teardown that leaves the connection alone
main_destroy_connection_skipped ==
  /\ mainpc = "m_destroy_connection"
  /\ mainpc' = "m_disable_components"
  /\ UNCHANGED <<q, unlockCalls, ptrVars, objVars, bufVars, cbVars, queueVars,
                 progVars,
                 cfgVars>>

\* lines 1252-1254
main_destroy_connection ==
  /\ mainpc = "m_destroy_connection"
  /\ IF encoder_connection
       THEN /\ conn' = "destroyed"
            /\ destroys' = [destroys EXCEPT !.connection = @ + 1]
       ELSE UNCHANGED <<conn, destroys>>
  /\ mainpc' = "m_disable_components"
  /\ UNCHANGED <<q, unlockCalls, ptrVars, stage, pool, faults, port_enabled,
                 userdata, capture, bufVars, cbVars, queueVars, progVars,
                 cfgVars>>

\* lines 1260-1267
main_disable_components ==
  /\ mainpc = "m_disable_components"
  /\ stage' = [camera |-> IF camera_component THEN "disabled" ELSE stage.camera,
               encoder |-> IF encoder_component THEN "disabled" ELSE stage.encoder]
  /\ mainpc' = "m_destroy_encoder"
  /\ UNCHANGED <<q, unlockCalls, ptrVars, conn, pool, destroys, faults,
                 port_enabled, userdata, capture, bufVars, cbVars, queueVars,
                 progVars,
                 cfgVars>>

\* a teardown that leaves the pool alone
mmal_port_pool_destroy_skipped(p) == p

\* line 1090: what mmal_port_pool_destroy makes of the pool
mmal_port_pool_destroy(p) == "destroyed"

\* lines 1085-1098: the pool is destroyed through the component's output
\* port when state->encoder_pool is non-null, then the component is
\* destroyed and state->encoder_component reset; state->encoder_pool is
\* not reset
destroy_encoder_component ==
  /\ mainpc \in {"m_destroy_encoder", "m_destroy_encoder_again"}
  /\ IF encoder_pool /\ ~encoder_component
       THEN /\ faults' = faults \cup {"destroy_encoder_component"}
            /\ mainpc' = "crashed"
            /\ UNCHANGED <<pool, stage, destroys, encoder_component, poolQueue,
                           atPort>>
       ELSE /\ pool' = IF encoder_pool THEN mmal_port_pool_destroy(pool) ELSE pool
            /\ poolQueue' = IF encoder_pool THEN <<>> ELSE poolQueue
            /\ atPort' = IF encoder_pool THEN <<>> ELSE atPort
            /\ stage' = [stage EXCEPT !.encoder =
                           IF encoder_component THEN "destroyed" ELSE @]
            /\ destroys' = [destroys EXCEPT
                              !.pool = IF encoder_pool THEN @ + 1 ELSE @,
                              !.encoder = IF encoder_component THEN @ + 1 ELSE @]
            /\ encoder_component' = FALSE
            /\ mainpc' = IF mainpc = "m_destroy_encoder"
                           THEN "m_destroy_camera" ELSE "m_destroy_camera_again"
            /\ UNCHANGED faults
  /\ UNCHANGED <<q, unlockCalls, camera_component, encoder_connection,
                 encoder_pool, conn, port_enabled, userdata, capture, lost,
                 nOutput, cbVars, queueVars, progVars,
                 cfgVars>>

\* lines 804-810
destroy_camera_component ==
  /\ mainpc \in {"m_destroy_camera_early", "m_destroy_camera",
                 "m_destroy_camera_again"}
  /\ IF camera_component
       THEN /\ stage' = [stage EXCEPT !.camera = "destroyed"]
            /\ destroys' = [destroys EXCEPT !.camera = @ + 1]
       ELSE UNCHANGED <<stage, destroys>>
  /\ camera_component' = FALSE
  /\ mainpc' = CASE mainpc = "m_destroy_camera_early" -> "m_return"
                 [] mainpc = "m_destroy_camera" -> "m_torn_down"
                 [] OTHER -> "m_torn_down_again"
  /\ UNCHANGED <<q, unlockCalls, encoder_component, encoder_connection,
                 encoder_pool, conn, pool, faults, port_enabled, userdata,
                 capture, bufVars, cbVars, queueVars, progVars,
                 cfgVars>>

\* lines 1272-1281
main_return ==
  /\ mainpc \in {"m_return", "m_torn_down"}
  /\ mainpc' = "m_exited"
  /\ UNCHANGED <<q, unlockCalls, ptrVars, objVars, bufVars, cbVars, queueVars,
                 progVars,
                 cfgVars>>

\* ------------------------------------------------- encoder_buffer_callback
\* line 577: the runtime hands a filled buffer to the callback
encoder_buffer_callback_enter ==
  /\ cbpc = "idle"
  /\ port_enabled /\ capture
  /\ conn = "enabled" /\ stage.camera = "enabled" /\ stage.encoder = "enabled"
  /\ nOutput < MaxFrames
  /\ atPort # <<>>
  /\ atPort' = Tail(atPort)
  /\ \E len \in 0..MaxLen, side \in BOOLEAN :
       mmal_buffer' = [id |-> Head(atPort), length |-> len, sideinfo |-> side,
                       data |-> Payload(nOutput + 1)]
  /\ nOutput' = nOutput + 1
  /\ cbTrace' = <<>>
  /\ cbpc' = "m_check"
  /\ UNCHANGED <<mainVars, ptrVars, objVars, poolQueue, lost, new_buffer,
                 gst_buffer, cbEntry, queueVars, progVars,
                 cfgVars>>

\* lines 582-588 and 614-616: without userdata only an error is logged
encoder_buffer_callback_check ==
  /\ cbpc = "m_check"
  /\ cbpc' = IF userdata /\ mmal_buffer.length # 0 THEN "m_mem_lock"
                                                   ELSE "m_release"
  /\ UNCHANGED <<mainVars, ptrVars, objVars, bufVars, mmal_buffer, new_buffer,
                 gst_buffer, cbTrace, cbEntry, queueVars, progVars,
                 cfgVars>>

\* line 590
encoder_buffer_callback_mem_lock ==
  /\ cbpc = "m_mem_lock"
  /\ cbTrace' = Append(cbTrace, "lock")
  /\ cbpc' = "m_payload"
  /\ UNCHANGED <<mainVars, ptrVars, objVars, bufVars, mmal_buffer, new_buffer,
                 gst_buffer, cbEntry, queueVars, progVars,
                 cfgVars>>

\* lines 591-599: a payload buffer is handed to the RTP session
encoder_buffer_callback_payload ==
  /\ cbpc = "m_payload"
  /\ cbTrace' = IF mmal_buffer.sideinfo THEN cbTrace
                                        ELSE Append(cbTrace, "send")
  /\ cbpc' = "m_mem_unlock"
  /\ UNCHANGED <<mainVars, ptrVars, objVars, bufVars, mmal_buffer, new_buffer,
                 gst_buffer, cbEntry, queueVars, progVars,
                 cfgVars>>

\* a write that reports fewer bytes than the buffer held
bytes_written_short(buf) == 0

\* lines 585 and 592: the only values bytes_written is given
bytes_written(buf) == buf.length

\* lines 601-607
encoder_buffer_callback_mem_unlock ==
  /\ cbpc = "m_mem_unlock"
  /\ cbTrace' = Append(cbTrace, "unlock")
  /\ abort' = IF bytes_written(mmal_buffer) # mmal_buffer.length THEN 1 ELSE abort
  /\ cbpc' = "m_release"
  /\ UNCHANGED <<mainVars, ptrVars, objVars, bufVars, mmal_buffer, new_buffer,
                 gst_buffer, cbEntry, queueVars, impl, status, exit_code,
                 cfgVars>>

\* line 619
encoder_buffer_callback_release ==
  /\ cbpc = "m_release"
  /\ poolQueue' = Append(poolQueue, mmal_buffer.id)
  /\ cbTrace' = Append(cbTrace, "release")
  /\ cbpc' = "m_recycle"
  /\ UNCHANGED <<mainVars, ptrVars, objVars, atPort, lost, nOutput,
                 mmal_buffer, new_buffer, gst_buffer, cbEntry, queueVars,
                 progVars,
                 cfgVars>>

\* lines 622-631: with the port enabled a header is taken from
\* pData->pstate->encoder_pool->queue
encoder_buffer_callback_recycle ==
  /\ cbpc = "m_recycle"
  /\ IF ~port_enabled
       THEN /\ cbpc' = "m_done"
            /\ UNCHANGED <<faults, poolQueue, new_buffer, cbTrace>>
       ELSE IF ~userdata \/ ~encoder_pool
         THEN /\ faults' = faults \cup {"encoder_buffer_callback"}
              /\ cbpc' = "crashed"
              /\ UNCHANGED <<poolQueue, new_buffer, cbTrace>>
         ELSE /\ cbTrace' = Append(cbTrace, "recycle")
              /\ UNCHANGED faults
              /\ IF poolQueue = <<>>
                   THEN /\ cbpc' = "m_done"
                        /\ UNCHANGED <<poolQueue, new_buffer>>
                   ELSE /\ new_buffer' = Head(poolQueue)
                        /\ poolQueue' = Tail(poolQueue)
                        /\ cbpc' = "m_send"
  /\ UNCHANGED <<mainVars, ptrVars, stage, conn, pool, destroys, port_enabled,
                 userdata, capture, atPort, lost, nOutput, mmal_buffer,
                 gst_buffer, cbEntry, queueVars, progVars,
                 cfgVars>>

\* lines 626-628
encoder_buffer_callback_send ==
  /\ cbpc = "m_send"
  /\ \E ok \in send_results(port_enabled) :
       IF ok THEN /\ atPort' = Append(atPort, new_buffer)
                  /\ UNCHANGED lost
             ELSE /\ lost' = lost \cup {new_buffer}
                  /\ UNCHANGED atPort
  /\ new_buffer' = 0
  /\ cbpc' = "m_done"
  /\ UNCHANGED <<mainVars, ptrVars, objVars, poolQueue, nOutput, mmal_buffer,
                 gst_buffer, cbTrace, cbEntry, queueVars, progVars,
                 cfgVars>>

\* line 633
encoder_buffer_callback_return ==
  /\ cbpc = "m_done"
  /\ mmal_buffer' = NoBuffer
  /\ cbpc' = "idle"
  /\ UNCHANGED <<mainVars, ptrVars, objVars, bufVars, new_buffer, gst_buffer,
                 cbTrace, cbEntry, queueVars, progVars,
                 cfgVars>>

MainNext ==
  \/ main_create_camera_component
  \/ encoder_component_create
  \/ encoder_bitrate
  \/ encoder_commit
  \/ encoder_intraperiod
  \/ encoder_slices
  \/ encoder_quant
  \/ encoder_profile
  \/ encoder_inline_headers
  \/ encoder_sps_timing
  \/ encoder_intra_refresh
  \/ main_create_encoder_component
  \/ main_connect_ports
  \/ main_set_userdata
  \/ main_enable_port
  \/ main_prime_test
  \/ main_prime_send
  \/ main_capture
  \/ main_wait
  \/ main_sleep
  \/ main_check_disable_port
  \/ main_destroy_connection
  \/ main_disable_components
  \/ destroy_encoder_component
  \/ destroy_camera_component
  \/ main_return
  \/ encoder_buffer_callback_enter
  \/ encoder_buffer_callback_check
  \/ encoder_buffer_callback_mem_lock
  \/ encoder_buffer_callback_payload
  \/ encoder_buffer_callback_mem_unlock
  \/ encoder_buffer_callback_release
  \/ encoder_buffer_callback_recycle
  \/ encoder_buffer_callback_send
  \/ encoder_buffer_callback_return

SpecMain == MainInit /\ [][MainNext]_vars

\* C13: when main returns after a step of the construction failed, the exit
\* code it returns is not EX_OK.
C13_FailureReported ==
  (mainpc = "m_exited" /\ status # "MMAL_SUCCESS") => exit_code # "EX_OK"

\* C15: the connection is enabled only while the camera component and the
\* encoder component are both enabled.
C15_ConnectionNeedsBothStages ==
  conn = "enabled" => (stage.camera = "enabled" /\ stage.encoder = "enabled")

\* teardown has destroyed a connection that was enabled and then disabled
\* both components
C15_Witness ==
  /\ encoder_connection /\ conn = "destroyed"
  /\ stage.camera = "disabled" /\ stage.encoder = "disabled"

\* C16: a stage is destroyed only after the connection is gone, the encoder
\* stage only after its pool is gone, and the camera stage only after the
\* encoder stage.
C16_ReverseOrderTeardown ==
  /\ (stage.camera = "destroyed" \/ stage.encoder = "destroyed") =>
       conn # "enabled"
  /\ stage.encoder = "destroyed" => pool # "alive"
  /\ stage.camera = "destroyed" => stage.encoder \in {"none", "destroyed"}

\* the teardown of a complete pipeline has run to its end
C16_Witness ==
  /\ mainpc = "m_torn_down"
  /\ destroys = [camera |-> 1, encoder |-> 1, connection |-> 1, pool |-> 1]

\* the teardown functions are called once more after the teardown of main
\* has completed
stop_again ==
  /\ mainpc = "m_torn_down"
  /\ mainpc' = "m_destroy_encoder_again"
  /\ UNCHANGED <<q, unlockCalls, ptrVars, objVars, bufVars, cbVars, queueVars,
                 progVars,
                 cfgVars>>

StopNext == MainNext \/ stop_again

SpecStop == MainInit /\ [][StopNext]_vars

\* C10: over any sequence of teardowns the pool, each stage and the
\* connection are destroyed at most once each and the teardown functions
\* dereference no null or destroyed object.
C10_TeardownIdempotent ==
  /\ destroys.pool <= 1 /\ destroys.camera <= 1
  /\ destroys.encoder <= 1 /\ destroys.connection <= 1
  /\ "destroy_encoder_component" \notin faults

\* ======================================================================
\* create_encoder_component on every configuration
\* ======================================================================
\* cam_controller with the settings parse_cmdline can leave in state, and
\* the element with the settings of a GstPiCam
ConfigInit ==
  /\ InitCommon
  /\ \/ impl = "gstpicam" /\ mainpc = "create_camera" /\ state = DefaultState
     \/ impl = "cam_controller" /\ mainpc = "m_create_camera"
          /\ state \in CmdlineStates
  /\ requested = state
  /\ encoder_output = NoFormat
  /\ encpc = "create"
  /\ set_calls = {}
  /\ \E n \in 1..MaxBufferNum :
       /\ n = 1 \/ state = DefaultState
       /\ camera_video = [NoVideo EXCEPT !.buffer_num = n, !.negotiated = n]
  /\ NoCmdline

ConfigNext ==
  \/ create_camera_component
  \/ main_create_camera_component
  \/ encoder_component_create
  \/ encoder_bitrate
  \/ encoder_commit
  \/ encoder_intraperiod
  \/ encoder_slices
  \/ encoder_quant
  \/ encoder_profile
  \/ encoder_inline_headers
  \/ encoder_sps_timing
  \/ encoder_intra_refresh
  \/ create_encoder_component
  \/ main_create_encoder_component

SpecConfig == ConfigInit /\ [][ConfigNext]_vars

\* the bitrate cap of the requested codec and level
BitrateCap ==
  IF requested.encoding = "MMAL_ENCODING_H264"
       /\ requested.level # "MMAL_VIDEO_LEVEL_H264_4"
    THEN MAX_BITRATE_LEVEL42
    ELSE MAX_BITRATE_LEVEL4

\* a <= b for two uint32_t
LeqU32(a, b) == a.hi < b.hi \/ (a.hi = b.hi /\ a.lo <= b.lo)

\* C17: once the bitrate is assigned to the output format it is
\* min(requested, cap): it never exceeds the cap, a request at or below the
\* cap is committed unchanged and a request above the cap is committed as
\* the cap.
C17_BitrateClamped ==
  encpc \in {"commit", "intraperiod", "slices", "quant", "profile",
            "inline_headers", "sps_timing", "intra_refresh", "enable",
            "failed"} =>
    /\ LeqU32(encoder_output.bitrate, uint32_t(BitrateCap))
    /\ (0 <= requested.bitrate /\ requested.bitrate <= BitrateCap) =>
         encoder_output.bitrate = uint32_t(requested.bitrate)
    /\ requested.bitrate > BitrateCap =>
         encoder_output.bitrate = uint32_t(BitrateCap)

\* the macroblock throughput of the request is above the ceiling of level
\* 4.2 (a product that does not fit an int is above it)
TooManyMacroblocks ==
  \/ mbs_overflow(requested)
  \/ frame_mbs(requested) * requested.framerate > 522240

\* C18: for H264, a request above 522240 macroblocks/s never gets its
\* profile sent and never yields a component; a level that is sent is 4.2
\* when the request is above 245760 macroblocks/s and the configured level
\* otherwise.
C18_LevelEscalation ==
  requested.encoding = "MMAL_ENCODING_H264" =>
    /\ TooManyMacroblocks =>
         /\ "MMAL_PARAMETER_PROFILE" \notin encoder_output.parameters
         /\ ~encoder_component
    /\ ("MMAL_PARAMETER_PROFILE" \in encoder_output.parameters
          /\ ~mbs_overflow(requested)) =>
         encoder_output.level =
           IF frame_mbs(requested) * requested.framerate > 245760
             THEN "MMAL_VIDEO_LEVEL_H264_42"
             ELSE requested.level

\* the smallest n with n * b >= a
CeilDiv(a, b) == (a + b - 1) \div b

C20_SlicesAlwaysSet ==
  (encpc \in {"quant", "profile", "inline_headers", "sps_timing",
             "intra_refresh", "enable"}
     /\ requested.encoding = "MMAL_ENCODING_H264" /\ requested.slices > 1) =>
    "MMAL_PARAMETER_MB_ROWS_PER_SLICE" \in encoder_output.parameters

\* the optional encoder parameters
OptionalParameters ==
  {"MMAL_PARAMETER_INTRAPERIOD", "MMAL_PARAMETER_VIDEO_ENCODE_INLINE_HEADER",
   "MMAL_PARAMETER_VIDEO_ENCODE_SPS_TIMING",
   "MMAL_PARAMETER_VIDEO_INTRA_REFRESH"} \cup Range(QuantParameters)

\* the running create_encoder_component has made a set call for p
Issued(p) == \E ok \in BOOLEAN : <<p, ok>> \in set_calls

\* C21: a failed set call of an optional encoder parameter ends
\* create_encoder_component in its failure path, and a parameter that is
\* unset (intra period -1, quantisation parameter 0, no intra-refresh type)
\* has no set call issued for it.
C21_OptionalSetFailureIsFatal ==
  /\ \A p \in OptionalParameters : <<p, FALSE>> \in set_calls => encpc = "failed"
  /\ requested.intraperiod = -1 => ~Issued("MMAL_PARAMETER_INTRAPERIOD")
  /\ requested.quantisationParameter = 0 =>
       \A i \in 1..3 : ~Issued(QuantParameters[i])
  /\ requested.intra_refresh_type = "none" =>
       ~Issued("MMAL_PARAMETER_VIDEO_INTRA_REFRESH")

\* C22: after mmal_port_format_commit succeeded on the encoder output port
\* no step changes a field of the stage configuration.
C22_ConfigFrozenAfterCommit ==
  [][encpc \notin {"create", "create_failed", "bitrate", "commit"}
       => state' = state]_vars

\* ======================================================================
\* the order of the callback's steps
\* ======================================================================
\* every b in the trace of the running callback has an a before it
Before(a, b) ==
  \A i \in 1..Len(cbTrace) :
    cbTrace[i] = b => \E j \in 1..(i - 1) : cbTrace[j] = a

\* C23: for a payload buffer the lock, the copy, the unlock, the release and
\* the recycle of the hardware buffer all come before the push of the frame,
\* and the push before the notification: a frame is in the queue only after
\* its hardware buffer is back in the pool.
C23_ReleaseBeforePush ==
  /\ \A a \in {"lock", "copy", "unlock", "release", "recycle"} :
       Before(a, "push")
  /\ Before("push", "notify")

\* C29: a callback locks the buffer memory at most once, unlocks it only
\* after locking it, has unlocked it by the time it releases the header and
\* by the time it ends, and neither locks nor unlocks a buffer of length
\* zero.
C29_UnlockOncePerLock ==
  /\ Count(cbTrace, "lock") <= 1
  /\ Count(cbTrace, "unlock") <= Count(cbTrace, "lock")
  /\ Before("lock", "unlock")
  /\ ("release" \in Range(cbTrace) \/ cbpc \in {"release", "done"}) =>
       Count(cbTrace, "unlock") = Count(cbTrace, "lock")
  /\ \A i \in 1..Len(cbTrace) :
       cbTrace[i] = "release" => \A j \in 1..Len(cbTrace) :
                                   cbTrace[j] = "unlock" => j < i
  /\ (cbpc # "idle" /\ mmal_buffer.length = 0) =>
       ("lock" \notin Range(cbTrace) /\ "unlock" \notin Range(cbTrace))

\* a callback that locked the buffer ended with one lock, one unlock and
\* the release
C29_Witness ==
  /\ cbpc = "done"
  /\ mmal_buffer.length > 0
  /\ Count(cbTrace, "lock") = 1 /\ Count(cbTrace, "unlock") = 1
  /\ "release" \in Range(cbTrace)

\* C25: a resubmission that fails at mmal_port_send_buffer leaves the header
\* it took where it was, on the pool's free list, and loses no buffer.
C25_FailedResubmitLosesNothing ==
  [][(cbpc = "return_send" /\ cbpc' = "done" /\ atPort' = atPort)
       => (lost' = lost /\ new_buffer \in Range(poolQueue'))]_vars

\* C26: once gst_pi_cam_start has requested capture, both stages and the
\* connection are enabled and the encoder output port is enabled with its
\* callback and its userdata.
C26_CaptureAfterConstruction ==
  mainpc \in {"started", "unlocked", "stopped"} =>
    /\ stage.camera = "enabled" /\ stage.encoder = "enabled"
    /\ conn = "enabled"
    /\ port_enabled /\ userdata

\* ======================================================================
\* create_camera_component and connect_ports
\* ======================================================================
\* C27: create_camera_component leaves either the enabled component,
\* returned and never destroyed, or no component: null is returned, and the
\* component is destroyed exactly once if it had been created and not at
\* all if it had not.
C27_CameraFailureDestroysOnce ==
  \/ camera_component /\ stage.camera = "enabled" /\ destroys.camera = 0
  \/ ~camera_component /\ stage.camera = "destroyed" /\ destroys.camera = 1
  \/ ~camera_component /\ stage.camera = "none" /\ destroys.camera = 0

\* a step after the creation failed in either program
C27_Witness ==
  /\ mainpc \in {"create_encoder", "m_return"}
  /\ ~camera_component /\ stage.camera = "destroyed" /\ destroys.camera = 1

\* the larger of two numbers
Max(a, b) == IF a >= b THEN a ELSE b

\* C28: the video port of a camera that was created has at least 3 buffers,
\* the larger of 3 and the number it asked for; its width is the least
\* multiple of 32 and its height the least multiple of 16 not below the
\* requested ones; its crop rectangle is the requested size at (0, 0).
C28_VideoPortFormat ==
  camera_video.committed =>
    /\ camera_video.buffer_num >= 3
    /\ camera_video.buffer_num = Max(camera_video.negotiated, 3)
    /\ camera_video.width % 32 = 0
    /\ camera_video.width >= requested.width
    /\ camera_video.width - requested.width < 32
    /\ camera_video.height % 16 = 0
    /\ camera_video.height >= requested.height
    /\ camera_video.height - requested.height < 16
    /\ camera_video.crop = [x |-> 0, y |-> 0, width |-> requested.width,
                            height |-> requested.height]

\* 1296x1080 is committed as 1312x1088 and a port asking for 1 buffer has 3
C28_Witness ==
  /\ camera_video.committed
  /\ requested.width = 1296 /\ requested.height = 1080
  /\ camera_video.width = 1312 /\ camera_video.height = 1088
  /\ camera_video.negotiated = 1 /\ camera_video.buffer_num = 3

\* C30: connect_ports leaves either a connection that is returned, enabled
\* and never destroyed, or null: with the connection destroyed exactly once
\* if it had been created, and nothing destroyed if it had not.
C30_ConnectionNullOrEnabled ==
  \/ encoder_connection /\ conn = "enabled" /\ destroys.connection = 0
  \/ ~encoder_connection /\ conn = "destroyed" /\ destroys.connection = 1
  \/ ~encoder_connection /\ conn = "none" /\ destroys.connection = 0

\* connect_ports returned null after mmal_connection_enable failed
C30_Witness ==
  /\ mainpc = "set_userdata"
  /\ ~encoder_connection /\ conn = "destroyed" /\ destroys.connection = 1

\* ======================================================================
\* the encoder callbacks on a port in either state
\* ======================================================================
\* the members of S in ascending order
Ascending(S) == SelectSeq([i \in 1..NumBuffers |-> i], LAMBDA b : b \in S)

\* Either program after its construction succeeded and capture was
\* requested, with the buffers divided in any way between the free list and
\* the encoder, and with the output port enabled or, as it is while
\* mmal_port_disable hands the encoder's buffers back, not enabled.
\* cam_controller's callback, which tests its userdata, is also called on a
\* port without userdata.
CallbackInit ==
  /\ impl \in {"gstpicam", "cam_controller"}
  /\ mainpc = IF impl = "gstpicam" THEN "started" ELSE "m_sleep"
  /\ q = 0
  /\ unlockCalls = 0
  /\ camera_component = TRUE
  /\ encoder_component = TRUE
  /\ encoder_connection = TRUE
  /\ encoder_pool = TRUE
  /\ stage = [camera |-> "enabled", encoder |-> "enabled"]
  /\ conn = "enabled"
  /\ pool = "alive"
  /\ destroys = [camera |-> 0, encoder |-> 0, connection |-> 0, pool |-> 0]
  /\ faults = {}
  /\ port_enabled \in BOOLEAN
  /\ userdata \in (IF impl = "cam_controller" THEN BOOLEAN ELSE {TRUE})
  /\ capture = TRUE
  /\ \E S \in SUBSET Buffers :
       /\ poolQueue = Ascending(S)
       /\ atPort = Ascending(Buffers \ S)
  /\ lost = {}
  /\ nOutput = 0
  /\ cbpc = "idle"
  /\ mmal_buffer = NoBuffer
  /\ new_buffer = 0
  /\ gst_buffer = NoFrame
  /\ cbTrace = <<>>
  /\ cbEntry = 0
  /\ queue = <<>>
  /\ mutex = Free
  /\ cpc = [c \in Consumers |-> "idle"]
  /\ cret = [c \in Consumers |-> "none"]
  /\ pushed = <<>>
  /\ popped = <<>>
  /\ popEmpty = 0
  /\ abort = 0
  /\ status = "MMAL_SUCCESS"
  /\ exit_code = "EX_OK"
  /\ state = DefaultState
  /\ requested = state
  /\ encoder_output = [NoFormat EXCEPT
                         !.bitrate = uint32_t(DefaultState.bitrate),
                         !.level = DefaultState.level,
                         !.parameters = {"MMAL_PARAMETER_PROFILE"}]
  /\ encpc = "returned"
  /\ set_calls = {}
  /\ camera_video = video_format(DefaultState, NoVideo)
  /\ NoCmdline

\* gstpicam.cpp 53, cam_controller.cpp 577: the runtime calls the port's
\* callback with a buffer the encoder holds
runtime_callback ==
  /\ cbpc = "idle"
  /\ nOutput < MaxFrames
  /\ atPort # <<>>
  /\ atPort' = Tail(atPort)
  /\ \E len \in 0..MaxLen, side \in BOOLEAN :
       mmal_buffer' = [id |-> Head(atPort), length |-> len, sideinfo |-> side,
                       data |-> Payload(nOutput + 1)]
  /\ nOutput' = nOutput + 1
  /\ cbTrace' = <<>>
  /\ cbEntry' = Len(pushed)
  /\ cbpc' = IF impl = "gstpicam" THEN "check_length" ELSE "m_check"
  /\ UNCHANGED <<mainVars, ptrVars, objVars, poolQueue, lost, new_buffer,
                 gst_buffer, queueVars, progVars, cfgVars>>

CallbackNext ==
  \/ runtime_callback
  \/ callback_check_length
  \/ callback_mem_lock
  \/ callback_check_flags
  \/ callback_alloc_copy
  \/ callback_queue_lock
  \/ callback_push
  \/ callback_queue_unlock
  \/ callback_notify
  \/ callback_mem_unlock
  \/ callback_release
  \/ mmal_return_buffer_to_port_enter
  \/ mmal_return_buffer_to_port_get
  \/ mmal_return_buffer_to_port_send
  \/ callback_return
  \/ encoder_buffer_callback_check
  \/ encoder_buffer_callback_mem_lock
  \/ encoder_buffer_callback_payload
  \/ encoder_buffer_callback_mem_unlock
  \/ encoder_buffer_callback_release
  \/ encoder_buffer_callback_recycle
  \/ encoder_buffer_callback_send
  \/ encoder_buffer_callback_return

SpecCallback == CallbackInit /\ [][CallbackNext]_vars

\* C24: the resubmission step of a callback on a port that is not enabled
\* ends the callback, takes no header from the free list and sends none:
\* the header just released is on the free list, and the free list, the
\* headers with the encoder and the dropped headers are what they were.
C24_DisabledPortSendsNothing ==
  [][(~port_enabled /\ cbpc \in {"return_buffer", "m_recycle"})
       => /\ cbpc' \in {"done", "m_done"}
          /\ poolQueue' = poolQueue /\ atPort' = atPort /\ lost' = lost
          /\ new_buffer' = new_buffer
          /\ mmal_buffer.id \in Range(poolQueue')]_vars

\* a callback of the element ended on a port that is not enabled, with its
\* header on the free list
C24_Witness ==
  /\ ~port_enabled /\ cbpc = "done"
  /\ "release" \in Range(cbTrace)
  /\ mmal_buffer.id \in Range(poolQueue)

\* ======================================================================
\* what create_encoder_component returns
\* ======================================================================
\* the pair raspicam::create_encoder_component returned is (null, null)
NullPair == ~encoder_component /\ ~encoder_pool

\* the encoder with a pool that may be null
EncoderReturned ==
  encoder_component /\ stage.encoder = "enabled" /\ destroys.encoder = 0

\* C31 as stated: what raspicam::create_encoder_component returned is
\* either (null, null) with the encoder destroyed exactly once, or the
\* enabled encoder with a pool that may be null.
C31_NullPairDestroyedOnce ==
  (impl = "gstpicam" /\ encpc = "returned") =>
    \/ NullPair /\ stage.encoder = "destroyed" /\ destroys.encoder = 1
    \/ EncoderReturned

\* C31: what raspicam::create_encoder_component returned is either (null,
\* null), with the encoder destroyed exactly once if mmal_component_create
\* had succeeded and nothing destroyed if it had not, or the enabled
\* encoder with a pool that may be null; a pool is never returned without
\* its component.
C31_PoolOnlyWithComponent ==
  (impl = "gstpicam" /\ encpc = "returned") =>
    /\ \/ NullPair /\ stage.encoder = "destroyed" /\ destroys.encoder = 1
       \/ NullPair /\ stage.encoder = "none" /\ destroys.encoder = 0
       \/ EncoderReturned
    /\ encoder_pool => encoder_component

\* (null, null) was returned after a step of the created encoder failed
C31_Witness ==
  /\ impl = "gstpicam" /\ encpc = "returned"
  /\ NullPair /\ stage.encoder = "destroyed" /\ destroys.encoder = 1

\* ======================================================================
\* the bitrate and the level that is finally sent
\* ======================================================================
\* the bitrate cap of an H264 level
LevelCap(level) ==
  IF level = "MMAL_VIDEO_LEVEL_H264_4" THEN MAX_BITRATE_LEVEL4
                                       ELSE MAX_BITRATE_LEVEL42

\* C32: an H264 encoder whose profile and level were sent has a committed
\* bitrate below the requested one only if the request is above the cap of
\* the level that was sent.
C32_ReducedOnlyAboveFinalCap ==
  (/\ requested.encoding = "MMAL_ENCODING_H264"
   /\ "MMAL_PARAMETER_PROFILE" \in encoder_output.parameters
   /\ ~mbs_overflow(requested)
   /\ requested.bitrate >= 0
   /\ ~LeqU32(uint32_t(requested.bitrate), encoder_output.bitrate))
    => requested.bitrate > LevelCap(encoder_output.level)

\* ======================================================================
\* the callback's context
\* ======================================================================
\* C33: an encoder output port that is enabled has its userdata set, and
\* every callback that is running has a non-null userdata to read.
C33_UserdataBeforeEnable ==
  /\ port_enabled => userdata
  /\ cbpc # "idle" => userdata

\* a callback is running on the enabled port
C33_Witness ==
  /\ cbpc = "check_length" /\ port_enabled /\ userdata

\* C34: cam_controller's callback on a port without userdata releases the
\* buffer and never reads through the userdata pointer, with the port
\* enabled or not.
C34_NullUserdataNeverDereferenced ==
  (impl = "cam_controller" /\ ~userdata) =>
    /\ "encoder_buffer_callback" \notin faults
    /\ cbpc # "crashed"
    /\ cbpc = "m_done" => "release" \in Range(cbTrace)

\* ======================================================================
\* cam_controller's wait loop
\* ======================================================================
\* main is in the loop of lines 1236-1239
Waiting == mainpc \in {"m_wait", "m_sleep"}

\* C35: no step of cam_controller raises callback_data.abort, main never
\* leaves its wait loop once it is in it, and the teardown block is entered
\* only from a failed connect_ports or a failed mmal_port_enable.
C35_AbortNeverRaised ==
  [][/\ abort' = 0
     /\ Waiting => Waiting'
     /\ (mainpc' = "m_check_disable_port" /\ mainpc # "m_check_disable_port")
          => mainpc \in {"m_connect", "m_enable_port"}]_vars

\* the callback has sent a payload buffer and unlocked it while main waits
C35_Witness ==
  /\ Waiting /\ abort = 0
  /\ cbpc = "m_release"
  /\ mmal_buffer.length > 0 /\ ~mmal_buffer.sideinfo
  /\ "unlock" \in Range(cbTrace)

\* ======================================================================
\* completion of gstpicam's encoder callback
\* ======================================================================
\* The callback thread and the mutex are scheduled fairly, and a consumer
\* that holds the mutex goes on to release it.  Nothing else is asked of the
\* consumers: they need not call gst_pi_cam_create, need not take the mutex
\* and need not pull anything.
CallbackFairness ==
  /\ WF_vars(callback_step)
  /\ SF_vars(callback_queue_lock)
  /\ \A c \in Consumers : WF_vars(create_step(c))

CallbackFairSpec == Spec /\ CallbackFairness

\* the callback is inside an invocation
Invoked == cbpc \notin {"idle", "crashed"}

\* the invocation has returned to the runtime with its buffer released
Completed == cbpc = "idle" /\ "release" \in Range(cbTrace)

\* the only place the callback can be held up is line 74, and only while a
\* consumer is inside its critical section
NeverWaits ==
  /\ cbpc # "crashed"
  /\ (Invoked /\ cbpc # "queue_lock") => ENABLED callback_step
  /\ cbpc = "queue_lock" =>
       \/ ENABLED callback_queue_lock
       \/ mutex \in Consumers /\ ENABLED create_step(mutex)

\* C36: every invocation of mmal_encoder_buffer_callback runs to completion
\* and releases its buffer whatever the consumers do: it is never held up
\* by the condition variable or by the length of the queue, only at the
\* queue mutex while a consumer holds it.
C36_CallbackCompletes ==
  /\ []NeverWaits
  /\ Invoked ~> Completed

\* nobody pulled: every buffer the encoder filled is in the queue, one frame
\* per payload buffer, and the last invocation has released its buffer
C36_Witness ==
  /\ Completed
  /\ "push" \in Range(cbTrace)
  /\ Len(queue) = MaxFrames /\ popped = <<>>
  /\ \A c \in Consumers : cpc[c] = "idle"

\* ======================================================================
\* cam_controller.cpp: parse_cmdline
\* ======================================================================
MaxArgs == 3         \* arguments after the program name

\* An argument is its first character being '-' or not (line 375) and the
\* rest of the string (&argv[i][1], line 384); a word without '-' is all text.
Opt(t) == [dash |-> TRUE, text |-> t]

Word(t) == [dash |-> FALSE, text |-> t]

\* lines 207-220
cmdline_commands ==
  { [id |-> "CommandBitrate", command |-> "-bitrate", abbrev |-> "b", num_parameters |-> 1],
    [id |-> "CommandFramerate", command |-> "-framerate", abbrev |-> "fps", num_parameters |-> 1],
    [id |-> "CommandIntraPeriod", command |-> "-intra", abbrev |-> "g", num_parameters |-> 1],
    [id |-> "CommandProfile", command |-> "-profile", abbrev |-> "pf", num_parameters |-> 1],
    [id |-> "CommandQP", command |-> "-qp", abbrev |-> "qp", num_parameters |-> 1],
    [id |-> "CommandInlineHeaders", command |-> "-inline", abbrev |-> "ih", num_parameters |-> 0],
    [id |-> "CommandIntraRefreshType", command |-> "-irefresh", abbrev |-> "if", num_parameters |-> 1],
    [id |-> "CommandCodec", command |-> "-codec", abbrev |-> "cd", num_parameters |-> 1],
    [id |-> "CommandLevel", command |-> "-level", abbrev |-> "lev", num_parameters |-> 1],
    [id |-> "CommandSPSTimings", command |-> "-spstimings", abbrev |-> "stm", num_parameters |-> 0],
    [id |-> "CommandSlices", command |-> "-slices", abbrev |-> "sl", num_parameters |-> 1] }

\* line 384: the entry whose command or abbreviation the text is, or -1
raspicli_get_command_id(arg) ==
  IF \E c \in cmdline_commands : arg \in {c.command, c.abbrev}
    THEN LET c == CHOOSE e \in cmdline_commands : arg \in {e.command, e.abbrev}
         IN [id |-> c.id, num_parameters |-> c.num_parameters]
    ELSE [id |-> "-1", num_parameters |-> 0]

\* lines 165-187
profile_map ==
  [baseline |-> "MMAL_VIDEO_PROFILE_H264_BASELINE",
   main |-> "MMAL_VIDEO_PROFILE_H264_MAIN",
   high |-> "MMAL_VIDEO_PROFILE_H264_HIGH"]

level_map ==
  ("4" :> "MMAL_VIDEO_LEVEL_H264_4") @@ ("4.1" :> "MMAL_VIDEO_LEVEL_H264_41")
    @@ ("4.2" :> "MMAL_VIDEO_LEVEL_H264_42")

intra_refresh_map ==
  [cyclic |-> "MMAL_VIDEO_INTRA_REFRESH_CYCLIC",
   adaptive |-> "MMAL_VIDEO_INTRA_REFRESH_ADAPTIVE",
   both |-> "MMAL_VIDEO_INTRA_REFRESH_BOTH",
   cyclicrows |-> "MMAL_VIDEO_INTRA_REFRESH_CYCLIC_MROWS"]

\* lines 433, 442, 465: the value the string is mapped to, or an empty
\* optional ("none")
raspicli_map_xref(str, map) ==
  IF ~str.dash /\ str.text \in DOMAIN map THEN map[str.text] ELSE "none"

value_or(opt, default) == IF opt = "none" THEN default ELSE opt

\* the decimal numbers among the strings
Digits == ("0" :> 0) @@ ("1" :> 1) @@ ("10" :> 10)

\* sscanf(str, "%u", &x) and sscanf(str, "%d", &x) with x an int: the number
\* of conversions made and the int stored; a leading '-' is read by both
sscanf(str) ==
  IF str.text \in DOMAIN Digits
    THEN [n |-> 1, x |-> IF str.dash THEN 0 - Digits[str.text] ELSE Digits[str.text]]
    ELSE [n |-> 0, x |-> 0]

\* lines 487-491: what raspicamcontrol_parse_cmdline and
\* raspicommonsettings_parse_cmdline report for an option of theirs: an
\* option neither knows (0), one without a value (1), one with a value (2)
parms_used(arg) ==
  CASE arg = "v" -> 1
    [] arg = "w" -> 2
    [] OTHER -> 0

\* the arguments the command lines are made of
Args ==
  {Opt("b"), Opt("-slices"), Opt("cd"), Opt("pf"), Opt("ih"),
   Opt("zz"), Opt("v"), Opt("w"), Opt("1"),
   Word("10"), Word("0"), Word("abc"), Word("H264"), Word("")}

\* main is given the program name and up to MaxArgs arguments; an option of
\* the other two parsers that takes a value is given one
CmdlineInit ==
  /\ InitCommon
  /\ impl = "cam_controller"
  /\ mainpc = "m_parse_cmdline"
  /\ state = DefaultState
  /\ requested = state
  /\ encoder_output = NoFormat
  /\ encpc = "create"
  /\ set_calls = {}
  /\ camera_video = NoVideo
  /\ \E n \in 0..MaxArgs : \E a \in [1..n -> Args] :
       /\ \A k \in 1..n : a[k] = Opt("w") => k < n
       /\ argv = <<Word("cam_controller")>> \o a
  /\ arg_i = 1
  /\ valid = 1
  /\ cmdpc = "scan"
  /\ cmdret = 0
  /\ flags = DefaultFlags

argc == Len(argv)

\* argv[k] of the program
Arg(k) == argv[k + 1]

\* lines 391-501: the switch, as the new valid, the increment of i and the
\* new state and flags
option(id, arg, value, st, fl) ==
  LET keep == [valid |-> 1, skip |-> 0, state |-> st, flags |-> fl]
      num == sscanf(value)
  IN CASE id \in {"CommandBitrate", "CommandFramerate", "CommandIntraPeriod",
                  "CommandQP"} ->
            LET field == CASE id = "CommandBitrate" -> "bitrate"
                           [] id = "CommandFramerate" -> "framerate"
                           [] id = "CommandIntraPeriod" -> "intraperiod"
                           [] OTHER -> "quantisationParameter"
            IN IF num.n = 1
                 THEN [keep EXCEPT !.skip = 1,
                                   !.state = [st EXCEPT ![field] = num.x]]
                 ELSE [keep EXCEPT !.valid = 0]
       [] id = "CommandProfile" ->
            [keep EXCEPT !.skip = 1,
                         !.flags = [fl EXCEPT !.profile =
                            value_or(raspicli_map_xref(value, profile_map),
                                     "MMAL_VIDEO_PROFILE_H264_HIGH")]]
       [] id = "CommandInlineHeaders" ->
            [keep EXCEPT !.flags = [fl EXCEPT !.bInlineHeaders = 1]]
       [] id = "CommandIntraRefreshType" ->
            [keep EXCEPT !.skip = 1,
                         !.state = [st EXCEPT !.intra_refresh_type =
                            raspicli_map_xref(value, intra_refresh_map)]]
       [] id = "CommandCodec" ->
            IF value = Word("")
              THEN [keep EXCEPT !.valid = 0]
              ELSE CASE value = Word("H264") ->
                          [keep EXCEPT !.skip = 1,
                             !.state = [st EXCEPT !.encoding = "MMAL_ENCODING_H264"]]
                     [] value = Word("MJPEG") ->
                          [keep EXCEPT !.skip = 1,
                             !.state = [st EXCEPT !.encoding = "MMAL_ENCODING_MJPEG"]]
                     [] OTHER -> [keep EXCEPT !.valid = 0, !.skip = 1]
       [] id = "CommandLevel" ->
            [keep EXCEPT !.skip = 1,
                         !.state = [st EXCEPT !.level =
                            value_or(raspicli_map_xref(value, level_map),
                                     "MMAL_VIDEO_LEVEL_H264_4")]]
       [] id = "CommandSlices" ->
            IF num.n = 1
              THEN IF num.x > 0
                     THEN [keep EXCEPT !.skip = 1,
                                       !.state = [st EXCEPT !.slices = num.x]]
                     ELSE [keep EXCEPT !.valid = 0,
                                       !.state = [st EXCEPT !.slices = num.x]]
              ELSE [keep EXCEPT !.valid = 0]
       [] id = "CommandSPSTimings" ->
            [keep EXCEPT !.flags = [fl EXCEPT !.addSPSTiming = TRUE]]
       [] OTHER ->
            IF parms_used(arg) = 0
              THEN [keep EXCEPT !.valid = 0]
              ELSE [keep EXCEPT !.skip = parms_used(arg) - 1]

\* lines 369-502: one iteration of the loop, the i++ of the for included
parse_cmdline_iteration ==
  /\ cmdpc = "scan"
  /\ arg_i < argc /\ valid # 0
  /\ LET cmd == raspicli_get_command_id(Arg(arg_i).text)
         r == option(cmd.id, Arg(arg_i).text,
                     IF arg_i + 1 < argc THEN Arg(arg_i + 1) ELSE Word(""),
                     state, flags)
     IN CASE ~Arg(arg_i).dash ->
               /\ valid' = 0
               /\ arg_i' = arg_i + 1
               /\ UNCHANGED <<state, flags>>
          [] Arg(arg_i).dash /\ cmd.id # "-1" /\ cmd.num_parameters > 0
               /\ arg_i + 1 >= argc ->
               /\ valid' = 1          \* line 382; the continue of line 388
               /\ arg_i' = arg_i + 1
               /\ UNCHANGED <<state, flags>>
          [] OTHER ->
               /\ valid' = r.valid
               /\ arg_i' = arg_i + r.skip + 1
               /\ state' = r.state
               /\ flags' = r.flags
  /\ UNCHANGED <<mainVars, ptrVars, objVars, bufVars, cbVars, queueVars,
                 progVars, requested, encoder_output, encpc, set_calls,
                 camera_video, argv, cmdpc, cmdret>>

\* lines 504-510
parse_cmdline_return ==
  /\ cmdpc = "scan"
  /\ ~(arg_i < argc /\ valid # 0)
  /\ cmdret' = IF valid = 0 THEN 1 ELSE 0
  /\ cmdpc' = "returned"
  /\ UNCHANGED <<mainVars, ptrVars, objVars, bufVars, cbVars, queueVars,
                 progVars, state, requested, encoder_output, encpc, set_calls,
                 camera_video, argv, arg_i, valid, flags>>

CmdlineNext == parse_cmdline_iteration \/ parse_cmdline_return

\* parse_cmdline runs on the main thread and nothing stops it
SpecCmdline == CmdlineInit /\ [][CmdlineNext]_vars /\ WF_vars(CmdlineNext)

\* ---- what a valid command line is
\* the option is in no table of options
Unknown(a) ==
  raspicli_get_command_id(a.text).id = "-1" /\ parms_used(a.text) = 0

\* the option is followed by a parameter
NeedsParameter(a) ==
  raspicli_get_command_id(a.text).num_parameters > 0 \/ parms_used(a.text) = 2

\* the parameter cannot be read as a value of the option: not a number for a
\* numeric option, not a positive number for the slices, not a codec name.
\* Profile, level and refresh type take any word, an unknown one as the default.
BadValue(a, v) ==
  LET id == raspicli_get_command_id(a.text).id
  IN CASE id \in {"CommandBitrate", "CommandFramerate", "CommandIntraPeriod",
                  "CommandQP"} -> v.text \notin DOMAIN Digits
       [] id = "CommandSlices" ->
            v.text \notin DOMAIN Digits \/ v.dash \/ Digits[v.text] <= 0
       [] id = "CommandCodec" -> v \notin {Word("H264"), Word("MJPEG")}
       [] OTHER -> FALSE

RECURSIVE Invalid(_)
Invalid(args) ==
  IF args = <<>> THEN FALSE
  ELSE LET a == Head(args)
           rest == Tail(args)
       IN \/ ~a.dash
          \/ Unknown(a)
          \/ IF NeedsParameter(a)
               THEN \/ rest = <<>>
                    \/ BadValue(a, Head(rest))
                    \/ Invalid(Tail(rest))
               ELSE Invalid(rest)

\* C37: parse_cmdline returns non-zero exactly on an invalid command line
\* (an argument without '-', an unknown option, a value that cannot be
\* parsed, a slice count <= 0, an option whose parameter is missing at the
\* end of the line), and its scan always comes to the return.
C37_InvalidCommandLineRejected ==
  /\ [](cmdpc = "returned" => (cmdret # 0 <=> Invalid(Tail(argv))))
  /\ <>(cmdpc = "returned")

====
